---- MODULE Spec2Model ----
(***************************************************************************)
(* Build-Smart: the concrete material estimation engine                    *)
(* (src/server/estimator.ts).                                              *)
(*                                                                         *)
(* estimateMaterials is a pure function of its input.  One call is modelled *)
(* as a state machine: the caller has passed `input` and the call either   *)
(* throws an Error or returns an EstimationResult.                         *)
(*                                                                         *)
(* JavaScript numbers are IEEE-754 binary64 values and the engine's        *)
(* arithmetic is modelled bit for bit: every +, * and / rounds to the      *)
(* nearest double (ties to even), toFixed rounds the exact binary value    *)
(* half up.  Number literals of the input and the figures reported by      *)
(* parseFloat(x.toFixed(k)) are decimal fractions <<n, d>>.                 *)
(***************************************************************************)
EXTENDS Integers, Sequences, FiniteSets, TLC

VARIABLES input, pc, result, error, locals,
          clientPc, clientResult, clientError,
          body, validated, clientValidated,
          heap, returned, mutations,
          revision, request, handler, calls, validationErrors, parsed,
          results, response,
          defaults, callers,
          formatted,
          props, presets, form, edited,
          onDelete, projects, estimates, issued, apiRequest, apiResponse,
          storedProjects, storedEstimates, createdBy, now, caller, outcome,
          users, sentTokens, authNow, authRequest, authResponse

engineVars == <<input, pc, result, error, locals>>

previewVars == <<clientPc, clientResult, clientError>>

validatorVars == <<body, validated, clientValidated>>

presetVars == <<heap, returned, mutations>>

routeVars ==
    <<revision, request, handler, calls, validationErrors, parsed, results,
      response>>

concurrentVars == <<defaults, callers>>

formatVars == <<formatted>>

formVars == <<props, presets, form, edited>>

apiVars == <<onDelete, projects, estimates, issued, apiRequest, apiResponse>>

storageVars == <<storedProjects, storedEstimates, createdBy, now, caller, outcome>>

authVars == <<users, sentTokens, authNow, authRequest, authResponse>>

appVars ==
    <<concurrentVars, formatVars, formVars, apiVars, storageVars, authVars>>

coreVars == <<engineVars, previewVars, validatorVars, presetVars, routeVars>>

(* What the actions of one part of the application leave alone.            *)
ConcurrentRest ==
    <<coreVars, formatVars, formVars, apiVars, storageVars, authVars>>

FormatRest ==
    <<previewVars, validatorVars, presetVars, routeVars, concurrentVars, formVars,
      apiVars, storageVars, authVars>>

FormRest ==
    <<coreVars, concurrentVars, formatVars, apiVars, storageVars, authVars>>

ApiRest ==
    <<coreVars, concurrentVars, formatVars, formVars, storageVars, authVars>>

StorageRest ==
    <<coreVars, concurrentVars, formatVars, formVars, apiVars, authVars>>

AuthRest ==
    <<coreVars, concurrentVars, formatVars, formVars, apiVars, storageVars>>

vars ==
    <<engineVars, previewVars, validatorVars, presetVars, routeVars, appVars>>

(* An optional property of an object: absent, or present with a value.     *)
None == <<>>

Some(v) == <<v>>

(* Destructuring with a default: the default replaces only an absent       *)
(* (undefined) property.                                                   *)
Default(opt, dflt) == IF opt = None THEN dflt ELSE opt[1]

(* No call of the engine, and no call of the validators, is under way.     *)
EngineIdle ==
    /\ input = None
    /\ pc = "idle"
    /\ result = None
    /\ error = ""
    /\ locals = None

PreviewIdle ==
    /\ clientPc = "idle"
    /\ clientResult = None
    /\ clientError = ""

ValidatorIdle ==
    /\ body = None
    /\ validated = None
    /\ clientValidated = None

PresetIdle ==
    /\ heap = <<>>
    /\ returned = None
    /\ mutations = 0

RouteIdle ==
    /\ revision = ""
    /\ request = None
    /\ handler = "idle"
    /\ calls = <<>>
    /\ validationErrors = None
    /\ parsed = None
    /\ results = None
    /\ response = None

(* No caller has entered the module.                                       *)
ConcurrentIdle ==
    /\ defaults = None
    /\ callers = None

(* formatEstimationResults has not been called.                            *)
FormatIdle == formatted = None

(* The estimation form is not mounted.                                     *)
FormIdle ==
    /\ props = None
    /\ presets = None
    /\ form = None
    /\ edited = FALSE

(* The project and estimate routes have no store and no request.           *)
ApiIdle ==
    /\ onDelete = ""
    /\ projects = None
    /\ estimates = None
    /\ issued = {}
    /\ apiRequest = None
    /\ apiResponse = None

(* The in-memory storage has not been constructed.                         *)
StorageIdle ==
    /\ storedProjects = None
    /\ storedEstimates = None
    /\ createdBy = None
    /\ now = 0
    /\ caller = ""
    /\ outcome = ""

(* The login routes have no storage and no request.                        *)
AuthIdle ==
    /\ users = None
    /\ sentTokens = {}
    /\ authNow = 0
    /\ authRequest = None
    /\ authResponse = None

AppIdle ==
    /\ ConcurrentIdle /\ FormatIdle /\ FormIdle /\ ApiIdle /\ StorageIdle
    /\ AuthIdle

(* F applied to the value of v: an operand is evaluated once, before the   *)
(* operation that uses it.                                                  *)
Let(v, F(_)) == CHOOSE r \in {F(x) : x \in {v}} : TRUE

Let2(v, w, F(_, _)) == CHOOSE r \in {F(x, y) : x \in {v}, y \in {w}} : TRUE

-----------------------------------------------------------------------------
(* Decimal fractions <<n, d>> in lowest terms, d > 0.                       *)

Abs(n) == IF n < 0 THEN -n ELSE n

Max(x, y) == IF x > y THEN x ELSE y

Min(x, y) == IF x < y THEN x ELSE y

RECURSIVE GCD(_, _)
GCD(a, b) == IF b = 0 THEN a ELSE GCD(b, a % b)

Rat(n, d) ==
    LET g == GCD(Abs(n), Abs(d))
    IN  IF d < 0 THEN <<(-n) \div g, (-d) \div g>> ELSE <<n \div g, d \div g>>

Num(n) == <<n, 1>>

(* Not a fraction: a number read from an absent property (undefined) and   *)
(* the figure parseFloat("NaN").                                           *)
Undefined == <<0, 0>>

RAdd(a, b) ==
    LET g == GCD(a[2], b[2])
    IN  Rat(a[1] * (b[2] \div g) + b[1] * (a[2] \div g), a[2] * (b[2] \div g))

RNeg(a) == <<-a[1], a[2]>>

RSub(a, b) == RAdd(a, RNeg(b))

RAbs(a) == <<Abs(a[1]), a[2]>>

RLe(a, b) == RSub(a, b)[1] <= 0

RLt(a, b) == RSub(a, b)[1] < 0

RECURSIVE Pow10(_)
Pow10(k) == IF k = 0 THEN 1 ELSE 10 * Pow10(k - 1)

-----------------------------------------------------------------------------
(* Magnitudes wider than a machine integer: little-endian digits in base   *)
(* 2^14.                                                                   *)
LimbBits == 14

B == 16384

Pow2(k) ==
    <<1, 2, 4, 8, 16, 32, 64, 128, 256, 512, 1024, 2048, 4096, 8192, 16384>>[k + 1]

IntToBig(n) == <<n % B, (n \div B) % B, n \div (B * B)>>

RECURSIVE BigToIntFrom(_, _)
BigToIntFrom(a, i) ==
    IF i > Len(a) THEN 0 ELSE a[i] + B * BigToIntFrom(a, i + 1)

BigToInt(a) == BigToIntFrom(a, 1)

RECURSIVE TopLimb(_, _)
TopLimb(a, i) == IF i = 0 \/ a[i] # 0 THEN i ELSE TopLimb(a, i - 1)

RECURSIVE LimbLen(_)
LimbLen(x) == IF x = 0 THEN 0 ELSE 1 + LimbLen(x \div 2)

BitLen(a) ==
    LET t == TopLimb(a, Len(a))
    IN  IF t = 0 THEN 0 ELSE LimbBits * (t - 1) + LimbLen(a[t])

Limb(a, i) == IF i >= 1 /\ i <= Len(a) THEN a[i] ELSE 0

Bit(a, k) ==
    IF k < 0 THEN 0 ELSE (Limb(a, (k \div LimbBits) + 1) \div Pow2(k % LimbBits)) % 2

(* floor(a / 2^sh), on n limbs.                                            *)
ShiftRight(a, sh, n) ==
    LET q == sh \div LimbBits
        r == sh % LimbBits
    IN  [i \in 1 .. n |->
            (Limb(a, i + q) \div Pow2(r))
              + (Limb(a, i + q + 1) % Pow2(r)) * Pow2(LimbBits - r)]

(* a * 2^sh, on n limbs.                                                   *)
ShiftLeft(a, sh, n) ==
    LET q == sh \div LimbBits
        r == sh % LimbBits
    IN  [i \in 1 .. n |->
            ((Limb(a, i - q) % Pow2(LimbBits - r)) * Pow2(r))
              + (Limb(a, i - q - 1) \div Pow2(LimbBits - r))]

RECURSIVE LimbsZero(_, _)
LimbsZero(a, i) == i < 1 \/ (Limb(a, i) = 0 /\ LimbsZero(a, i - 1))

(* a mod 2^k # 0                                                           *)
AnyBitsBelow(a, k) ==
    k > 0 /\ (\/ ~LimbsZero(a, k \div LimbBits)
              \/ Limb(a, (k \div LimbBits) + 1) % Pow2(k % LimbBits) # 0)

RECURSIVE ColSum(_, _, _, _, _)
ColSum(a, b, k, i, hi) ==
    IF i > hi THEN 0 ELSE a[i] * b[k - i + 1] + ColSum(a, b, k, i + 1, hi)

RECURSIVE MulFrom(_, _, _, _)
MulFrom(a, b, k, c) ==
    IF k > Len(a) + Len(b) - 1 THEN <<c>>
    ELSE LET s == c + ColSum(a, b, k, Max(1, k - Len(b) + 1), Min(Len(a), k))
         IN  <<s % B>> \o MulFrom(a, b, k + 1, s \div B)

BMul(a, b) == MulFrom(a, b, 1, 0)

RECURSIVE AddFrom(_, _, _, _)
AddFrom(a, b, i, c) ==
    IF i > Max(Len(a), Len(b)) THEN <<c>>
    ELSE LET s == c + Limb(a, i) + Limb(b, i)
         IN  <<s % B>> \o AddFrom(a, b, i + 1, s \div B)

BAdd(a, b) == AddFrom(a, b, 1, 0)

(* a - b for a >= b.                                                        *)
RECURSIVE SubFrom(_, _, _, _)
SubFrom(a, b, i, c) ==
    IF i > Len(a) THEN <<>>
    ELSE LET s == Limb(a, i) - Limb(b, i) - c
         IN  <<s % B>> \o SubFrom(a, b, i + 1, IF s < 0 THEN 1 ELSE 0)

BSub(a, b) == SubFrom(a, b, 1, 0)

(* -1, 0, 1 as a < b, a = b, a > b, comparing from limb i down.            *)
RECURSIVE CmpFrom(_, _, _)
CmpFrom(a, b, i) ==
    IF i = 0 THEN 0
    ELSE IF Limb(a, i) < Limb(b, i) THEN -1
    ELSE IF Limb(a, i) > Limb(b, i) THEN 1
    ELSE CmpFrom(a, b, i - 1)

BCmp(a, b) == CmpFrom(a, b, Max(Len(a), Len(b)))

(* Quotient and remainder of a by a one-limb d, from limb i down.          *)
RECURSIVE ShortDivFrom(_, _, _, _)
ShortDivFrom(a, d, i, r) ==
    IF i = 0 THEN <<<<>>, r>>
    ELSE LET cur  == r * B + a[i]
             rest == ShortDivFrom(a, d, i - 1, cur % d)
         IN  <<rest[1] \o <<cur \div d>>, rest[2]>>

ShortDiv(a, d) == ShortDivFrom(a, d, Len(a), 0)

-----------------------------------------------------------------------------
(* IEEE-754 binary64 numbers: <<sign, e, m>> stands for sign * m * 2^e     *)
(* with 2^52 <= m < 2^53 on four limbs, or Zero.                            *)

MantBits == 53

Zero == <<0, 0, <<0, 0, 0, 0>>>>

(* NaN, the value of an arithmetic operation on undefined.                  *)
NaN == <<2, 0, <<0, 0, 0, 0>>>>

IsNaN(x) == x[1] = 2

(* Math.ceil(NaN) in the integer-valued model of Math.ceil.                 *)
NotANumber == -(2 ^ 30)

TwoTo52 == <<0, 0, 0, 1024>>

RoundUp(sign, m0, E) ==
    Let(BAdd(m0, <<1>>), LAMBDA m1 :
        IF m1[4] >= 2 * TwoTo52[4]
        THEN <<sign, E + 1, TwoTo52>>
        ELSE <<sign, E, SubSeq(m1, 1, 4)>>)

(* Round to nearest, ties to even: the double nearest to sign * N * 2^E,   *)
(* where sticky tells that a nonzero fraction below N was cut off.         *)
Nearest(sign, N, E, sticky) ==
    Let(BitLen(N), LAMBDA L :
        IF L = 0 THEN Zero
        ELSE IF L <= MantBits
        THEN <<sign, E - (MantBits - L), ShiftLeft(N, MantBits - L, 4)>>
        ELSE Let(ShiftRight(N, L - MantBits, 4), LAMBDA m0 :
                 IF Bit(N, L - MantBits - 1) = 1
                      /\ (sticky \/ m0[1] % 2 = 1
                            \/ AnyBitsBelow(N, L - MantBits - 1))
                 THEN RoundUp(sign, m0, E + L - MantBits)
                 ELSE <<sign, E + L - MantBits, m0>>))

Round(sign, N, E, sticky) ==
    Let(N, LAMBDA n : Nearest(sign, n, E, sticky))

FromInt(n) ==
    IF n = NotANumber THEN NaN
    ELSE IF n = 0 THEN Zero
    ELSE Round(IF n < 0 THEN -1 ELSE 1, IntToBig(Abs(n)), 0, FALSE)

FNeg(x) == <<-x[1], x[2], x[3]>>

Product(x, y) ==
    IF IsNaN(x) \/ IsNaN(y) THEN NaN
    ELSE IF x[1] = 0 \/ y[1] = 0 THEN Zero
    ELSE Round(x[1] * y[1], BMul(x[3], y[3]), x[2] + y[2], FALSE)

FMul(x, y) == Let2(x, y, Product)

RECURSIVE ZeroLimbs(_, _)
ZeroLimbs(a, i) == IF a[i] # 0 THEN i - 1 ELSE ZeroLimbs(a, i + 1)

RECURSIVE ZeroBits(_, _)
ZeroBits(x, k) == IF x % 2 = 1 THEN k ELSE ZeroBits(x \div 2, k + 1)

TrailingZeros(a) ==
    Let(ZeroLimbs(a, 1), LAMBDA z : LimbBits * z + ZeroBits(a[z + 1], 0))

(* One limb of the quotient of r / d (r < 2 * d), most significant bit      *)
(* first: <<limb, remainder>>.                                              *)
RECURSIVE DivBits(_, _, _, _)
DivBits(r0, d, n, acc) ==
    IF n = 0 THEN <<acc, r0>>
    ELSE Let(r0, LAMBDA r :
             IF BCmp(r, d) >= 0
             THEN Let(BSub(r, d), LAMBDA r1 :
                      DivBits(SubSeq(BAdd(r1, r1), 1, 4), d, n - 1, 2 * acc + 1))
             ELSE DivBits(SubSeq(BAdd(r, r), 1, 4), d, n - 1, 2 * acc))

RECURSIVE DivLimbs(_, _, _)
DivLimbs(r, d, n) ==
    IF n = 0 THEN <<<<>>, r>>
    ELSE Let(DivBits(r, d, LimbBits, 0), LAMBDA top :
             Let(DivLimbs(top[2], d, n - 1), LAMBDA rest :
                 <<rest[1] \o <<top[1]>>, rest[2]>>))

Quotient(x, y) ==
    IF IsNaN(x) \/ IsNaN(y) THEN NaN
    ELSE IF x[1] = 0 THEN Zero
    ELSE Let(TrailingZeros(y[3]), LAMBDA tz :
         Let(ShiftRight(y[3], tz, 4), LAMBDA d :
             IF d[2] = 0 /\ d[3] = 0 /\ d[4] = 0
             THEN Let(ShortDiv(<<0, 0>> \o x[3], d[1]), LAMBDA qr :
                      Nearest(x[1] * y[1], qr[1],
                              x[2] - 2 * LimbBits - (y[2] + tz), qr[2] # 0))
             ELSE Let(DivLimbs(x[3], y[3], 4), LAMBDA qr :
                      Nearest(x[1] * y[1], qr[1],
                              x[2] - y[2] - (4 * LimbBits - 1),
                              qr[2] # <<0, 0, 0, 0>>))))

FDiv(x, y) == Let2(x, y, Quotient)

Aligned(big, small) ==
    IF big[2] - small[2] > 60 THEN big
    ELSE Let(ShiftLeft(big[3], big[2] - small[2], 9), LAMBDA wide :
             IF big[1] = small[1]
             THEN Round(big[1], BAdd(wide, small[3]), small[2], FALSE)
             ELSE Let(BCmp(wide, small[3]), LAMBDA c :
                      IF c = 0 THEN Zero
                      ELSE IF c > 0
                      THEN Round(big[1], BSub(wide, small[3]), small[2], FALSE)
                      ELSE Round(small[1], BSub(small[3], wide), small[2],
                                 FALSE)))

Sum(x, y) ==
    IF IsNaN(x) \/ IsNaN(y) THEN NaN
    ELSE IF x[1] = 0 THEN y
    ELSE IF y[1] = 0 THEN x
    ELSE IF x[2] >= y[2] THEN Aligned(x, y) ELSE Aligned(y, x)

FAdd(x, y) == Let2(x, y, Sum)

(* x < y                                                                    *)
MagCmp(x, y) ==
    IF x[1] = 0 /\ y[1] = 0 THEN 0
    ELSE IF x[1] = 0 THEN -1
    ELSE IF y[1] = 0 THEN 1
    ELSE IF x[2] < y[2] THEN -1
    ELSE IF x[2] > y[2] THEN 1
    ELSE BCmp(x[3], y[3])

FCmp(x, y) ==
    IF x[1] # y[1] THEN (IF x[1] < y[1] THEN -1 ELSE 1)
    ELSE IF x[1] >= 0 THEN MagCmp(x, y) ELSE -MagCmp(x, y)

(* A comparison with NaN is false.                                          *)
FLt(x, y) == ~ IsNaN(x) /\ ~ IsNaN(y) /\ FCmp(x, y) < 0

FLe(x, y) == ~ IsNaN(x) /\ ~ IsNaN(y) /\ FCmp(x, y) <= 0

(* Math.ceil as an integer.                                                 *)
CeilOf(x) ==
    IF IsNaN(x) THEN NotANumber
    ELSE IF x[1] = 0 THEN 0
    ELSE IF x[2] >= 0 THEN x[1] * BigToInt(ShiftLeft(x[3], x[2], 4))
    ELSE Let(BigToInt(ShiftRight(x[3], -x[2], 4)), LAMBDA q :
             IF x[1] > 0
             THEN q + (IF AnyBitsBelow(x[3], -x[2]) THEN 1 ELSE 0)
             ELSE -q)

Ceil(x) == Let(x, CeilOf)

(* The integer n of x.toFixed(k) = n / 10^k: the n nearest to x * 10^k,    *)
(* the larger one on a tie, on the magnitude of x.                          *)
Units(x, k) ==
    IF x[1] = 0 THEN 0
    ELSE Let(BMul(x[3], IntToBig(Pow10(k))), LAMBDA N :
             IF x[2] >= 0 THEN x[1] * BigToInt(ShiftLeft(N, x[2], 7))
             ELSE x[1] * (BigToInt(ShiftRight(N, -x[2], 7))
                            + Bit(N, -x[2] - 1)))

ToFixedUnits(x, k) == Let(x, LAMBDA v : Units(v, k))

(* The number a decimal literal denotes: the double nearest to n / d.      *)
Number(r) ==
    IF r[2] = 0 THEN NaN
    ELSE IF r[2] = 1 THEN FromInt(r[1])
    ELSE FDiv(FromInt(r[1]), FromInt(r[2]))

(* parseFloat(x.toFixed(k)): x rounded to k decimals.                       *)
ToFixed(x, k) ==
    IF IsNaN(x) THEN Undefined ELSE Rat(ToFixedUnits(x, k), Pow10(k))

-----------------------------------------------------------------------------
(* src/server/estimator.ts                                                 *)

DEFAULT_DENSITIES ==
    [cement |-> Num(1440), sand |-> Num(1600), agg |-> Num(1750)]

DEFAULT_MATERIAL_COSTS ==
    [cement |-> Num(10), sand |-> Num(50), agg |-> Num(35)]

DEFAULT_DRY_FACTOR == Rat(154, 100)

DEFAULT_WASTAGE_FACTOR == Num(5)

(* Weight of one bag of cement, kg.                                        *)
BAG_KG == 50

(* const { volumeM3, mixRatio, densities = DEFAULT_DENSITIES,              *)
(*         dryFactor = 1.54, wastageFactor = 5.0 } = input                 *)
densitiesOf(in) == Default(in.densities, DEFAULT_DENSITIES)

dryFactorOf(in) == Default(in.dryFactor, DEFAULT_DRY_FACTOR)

wastageFactorOf_Falsy(in) ==
    IF in.wastageFactor = None \/ in.wastageFactor = Some(Num(0))
    THEN DEFAULT_WASTAGE_FACTOR
    ELSE in.wastageFactor[1]
wastageFactorOf(in) == Default(in.wastageFactor, DEFAULT_WASTAGE_FACTOR)

(* The constants bound by the two destructuring statements.                *)
Destructured(in) ==
    [volumeM3      |-> Number(in.volumeM3),
     pCement       |-> Number(in.mixRatio.cement),
     pSand         |-> Number(in.mixRatio.sand),
     pAgg          |-> Number(in.mixRatio.agg),
     densities     |-> [cement |-> Number(densitiesOf(in).cement),
                        sand   |-> Number(densitiesOf(in).sand),
                        agg    |-> Number(densitiesOf(in).agg)],
     dryFactor     |-> Number(dryFactorOf(in)),
     wastageFactor |-> Number(wastageFactorOf(in))]

(* The three guards; l holds the constants bound so far.                   *)
VolumeCheck(l) == FLe(l.volumeM3, Zero)

MixRatioCheck(l) ==
    FLe(l.pCement, Zero) \/ FLe(l.pSand, Zero) \/ FLe(l.pAgg, Zero)

DensitiesCheck_CementOnly(l) == FLe(l.densities.cement, Zero)
DensitiesCheck(l) ==
    \/ FLe(l.densities.cement, Zero)
    \/ FLe(l.densities.sand, Zero)
    \/ FLe(l.densities.agg, Zero)

(* The message of the Error the call throws, "" if it throws none.         *)
ThrownError(l) ==
    IF VolumeCheck(l) THEN "Volume must be greater than 0"
    ELSE IF MixRatioCheck(l) THEN "All mix ratio parts must be greater than 0"
    ELSE IF DensitiesCheck(l) THEN "All densities must be greater than 0"
    ELSE ""

(* The right-hand sides of the const declarations, in source order.        *)
S_WithoutAgg(l) == FAdd(l.pCement, l.pSand)
S(l) == FAdd(FAdd(l.pCement, l.pSand), l.pAgg)

adjustedVolume_NoDryFactor(l) == l.volumeM3
adjustedVolume_Sum(l) == FAdd(l.volumeM3, l.dryFactor)
adjustedVolume_WithWastage(l) ==
    FMul(FMul(l.volumeM3, l.dryFactor),
         FAdd(FromInt(1), FDiv(l.wastageFactor, FromInt(100))))
adjustedVolume(l) == FMul(l.volumeM3, l.dryFactor)

cementVolume(l) == FMul(FDiv(l.pCement, l.S), l.adjustedVolume)

sandVolume(l) == FMul(FDiv(l.pSand, l.S), l.adjustedVolume)

aggVolume_Undivided(l) == FMul(l.pAgg, l.adjustedVolume)
aggVolume(l) == FMul(FDiv(l.pAgg, l.S), l.adjustedVolume)

cementMass(l) == FMul(l.cementVolume, l.densities.cement)

sandMass(l) == FMul(l.sandVolume, l.densities.sand)

aggMass(l) == FMul(l.aggVolume, l.densities.agg)

wastageMultiplier_Deducted(l) ==
    FAdd(FromInt(1), FNeg(FDiv(l.wastageFactor, FromInt(100))))
wastageMultiplier(l) == FAdd(FromInt(1), FDiv(l.wastageFactor, FromInt(100)))

cementMassWithWastage(l) == FMul(l.cementMass, l.wastageMultiplier)

sandMassWithWastage(l) == FMul(l.sandMass, l.wastageMultiplier)

aggMassWithWastage_NoWastage(l) == l.aggMass
aggMassWithWastage(l) == FMul(l.aggMass, l.wastageMultiplier)

cementBags_FromRoundedMass(l) ==
    Ceil(FDiv(Number(ToFixed(l.cementMassWithWastage, 2)), FromInt(BAG_KG)))
cementBags_Nearest(l) ==
    ToFixedUnits(FDiv(l.cementMassWithWastage, FromInt(BAG_KG)), 0)
cementBags(l) == Ceil(FDiv(l.cementMassWithWastage, FromInt(BAG_KG)))

cementTonnes(l) == FDiv(l.cementMassWithWastage, FromInt(1000))

sandTonnes(l) == FDiv(l.sandMassWithWastage, FromInt(1000))

aggTonnes(l) == FDiv(l.aggMassWithWastage, FromInt(1000))

cementCost(l) == FMul(FromInt(l.cementBags), Number(DEFAULT_MATERIAL_COSTS.cement))

sandCost_FromRoundedTonnes(l) ==
    FMul(Number(ToFixed(l.sandTonnes, 3)), Number(DEFAULT_MATERIAL_COSTS.sand))
sandCost(l) == FMul(l.sandTonnes, Number(DEFAULT_MATERIAL_COSTS.sand))

aggCost(l) == FMul(l.aggTonnes, Number(DEFAULT_MATERIAL_COSTS.agg))

totalCost(l) == FAdd(FAdd(l.cementCost, l.sandCost), l.aggCost)

(* The const declarations of the function body, in source order.           *)
Statements ==
    <<"S", "adjustedVolume", "cementVolume", "sandVolume", "aggVolume",
      "cementMass", "sandMass", "aggMass", "wastageMultiplier",
      "cementMassWithWastage", "sandMassWithWastage", "aggMassWithWastage",
      "cementBags", "cementTonnes", "sandTonnes", "aggTonnes",
      "cementCost", "sandCost", "aggCost", "totalCost">>

Initializer(name, l) ==
    CASE name = "S" -> S(l)
      [] name = "adjustedVolume" -> adjustedVolume(l)
      [] name = "cementVolume" -> cementVolume(l)
      [] name = "sandVolume" -> sandVolume(l)
      [] name = "aggVolume" -> aggVolume(l)
      [] name = "cementMass" -> cementMass(l)
      [] name = "sandMass" -> sandMass(l)
      [] name = "aggMass" -> aggMass(l)
      [] name = "wastageMultiplier" -> wastageMultiplier(l)
      [] name = "cementMassWithWastage" -> cementMassWithWastage(l)
      [] name = "sandMassWithWastage" -> sandMassWithWastage(l)
      [] name = "aggMassWithWastage" -> aggMassWithWastage(l)
      [] name = "cementBags" -> cementBags(l)
      [] name = "cementTonnes" -> cementTonnes(l)
      [] name = "sandTonnes" -> sandTonnes(l)
      [] name = "aggTonnes" -> aggTonnes(l)
      [] name = "cementCost" -> cementCost(l)
      [] name = "sandCost" -> sandCost(l)
      [] name = "aggCost" -> aggCost(l)
      [] name = "totalCost" -> totalCost(l)

(* const name = initializer: l extended by the new constant.               *)
Declare(l, name) == l @@ (name :> Initializer(name, l))

(* The constants in scope after the declarations from the i-th on.         *)
RECURSIVE Execute(_, _)
Execute(l, i) ==
    IF i > Len(Statements) THEN l
    ELSE Let(l, LAMBDA scope : Execute(Declare(scope, Statements[i]), i + 1))

(* cementMassWithWastage + sandMassWithWastage + aggMassWithWastage        *)
totalMass_BeforeWastage(l) == FAdd(FAdd(l.cementMass, l.sandMass), l.aggMass)
totalMass(l) ==
    FAdd(FAdd(l.cementMassWithWastage, l.sandMassWithWastage),
         l.aggMassWithWastage)

cementResult(l) ==
    [volume |-> ToFixed(l.cementVolume, 6),
     mass   |-> ToFixed(l.cementMassWithWastage, 2),
     bags   |-> l.cementBags,
     tonnes |-> ToFixed(l.cementTonnes, 3)]

sandResult(l) ==
    [volume |-> ToFixed(l.sandVolume, 6),
     mass   |-> ToFixed(l.sandMassWithWastage, 2),
     tonnes |-> ToFixed(l.sandTonnes, 3)]

aggResult(l) ==
    [volume |-> ToFixed(l.aggVolume, 6),
     mass   |-> ToFixed(l.aggMassWithWastage, 2),
     tonnes |-> ToFixed(l.aggTonnes, 3)]

(* The returned object.                                                    *)
EstimationResult_Defaulted(in, l) ==
    [cement     |-> cementResult(l),
     sand       |-> sandResult(l),
     aggregate  |-> aggResult(l),
     totals     |-> [volume        |-> ToFixed(l.adjustedVolume, 6),
                     mass          |-> ToFixed(totalMass(l), 2),
                     estimatedCost |-> ToFixed(l.totalCost, 2)],
     parameters |-> [in EXCEPT !.dryFactor = Some(dryFactorOf(in)),
                               !.wastageFactor = Some(wastageFactorOf(in))]]
EstimationResult(in, l) ==
    [cement     |-> cementResult(l),
     sand       |-> sandResult(l),
     aggregate  |-> aggResult(l),
     totals     |-> [volume        |-> ToFixed(l.adjustedVolume, 6),
                     mass          |-> ToFixed(totalMass(l), 2),
                     estimatedCost |-> ToFixed(l.totalCost, 2)],
     parameters |-> in]

-----------------------------------------------------------------------------
(* The inputs the engine is called with.                                   *)

MaxVolumeStep == 2

MaxPart == 2

MaxWastageStep == 3

(* Volumes in steps of 0.02 m3 from -0.02 on, and 0.000975, 1.53 and       *)
(* 100 m3.                                                                 *)
Volumes ==
    {Rat(k, 50) : k \in -1 .. MaxVolumeStep}
    \cup {Rat(975, 1000000), Rat(153, 100), Num(100)}

getPresetMixRatios ==
    [c \in {"C20/25", "C25/30", "C30/37", "C35/45"} |->
        CASE c = "C20/25" -> [cement |-> Num(1), sand |-> Num(2), agg |-> Num(4)]
          [] c = "C25/30" -> [cement |-> Num(1), sand |-> Rat(3, 2), agg |-> Num(3)]
          [] c = "C30/37" -> [cement |-> Num(1), sand |-> Rat(6, 5), agg |-> Rat(12, 5)]
          [] c = "C35/45" -> [cement |-> Num(1), sand |-> Num(1), agg |-> Num(2)]]

(* Ratios k:1:1, the presets, 1:1:1.3, and ratios with a part <= 0.        *)
MixRatios ==
    {[cement |-> Num(k), sand |-> Num(1), agg |-> Num(1)] : k \in 1 .. MaxPart}
    \cup {getPresetMixRatios[c] : c \in DOMAIN getPresetMixRatios}
    \cup {[cement |-> Num(1), sand |-> Num(1), agg |-> Rat(13, 10)]}
    \cup {[cement |-> Num(0), sand |-> Num(1), agg |-> Num(1)],
          [cement |-> Num(1), sand |-> Num(0), agg |-> Num(1)],
          [cement |-> Num(1), sand |-> Num(1), agg |-> Num(0)],
          [cement |-> Num(1), sand |-> Num(-1), agg |-> Num(2)]}

DensityChoices ==
    {None, Some(DEFAULT_DENSITIES),
     Some([cement |-> Num(1000), sand |-> Num(1000), agg |-> Num(1000)]),
     Some([cement |-> Num(2381), sand |-> Num(1000), agg |-> Num(1000)]),
     Some([cement |-> Num(0), sand |-> Num(1600), agg |-> Num(1750)]),
     Some([cement |-> Num(1440), sand |-> Num(-1), agg |-> Num(1750)]),
     Some([cement |-> Num(1440), sand |-> Num(1600), agg |-> Num(0)])}

DryFactors == {None, Some(Num(0)), Some(Num(1)), Some(DEFAULT_DRY_FACTOR)}

(* Wastage omitted, or in steps of 2.5 per cent from 0 on.                 *)
WastageFactors == {None} \cup {Some(Rat(5 * k, 2)) : k \in 0 .. MaxWastageStep}

(* Every volume with every ratio, the optional factors left out.           *)
SweepInputs ==
    [volumeM3 : Volumes, mixRatio : MixRatios, densities : {None},
     dryFactor : {None}, wastageFactor : WastageFactors]

(* Four pours, each with every choice of the optional properties.          *)
Pours ==
    {<<Num(100), getPresetMixRatios["C20/25"]>>,
     <<Num(100), [cement |-> Num(2), sand |-> Num(1), agg |-> Num(1)]>>,
     <<Rat(153, 100), [cement |-> Num(1), sand |-> Num(1), agg |-> Num(1)]>>,
     <<Rat(1, 25), [cement |-> Num(2), sand |-> Num(1), agg |-> Num(1)]>>}

OptionInputs ==
    {[volumeM3 |-> p[1], mixRatio |-> p[2], densities |-> d,
      dryFactor |-> f, wastageFactor |-> w] :
        p \in Pours, d \in DensityChoices, f \in DryFactors,
        w \in WastageFactors}

Inputs == SweepInputs \cup OptionInputs

-----------------------------------------------------------------------------
(* One call of the engine: `input` is the argument, pc the position of the *)
(* caller, result the returned object, error the message of the Error,     *)
(* locals the constants of the function body when it returned.             *)

Init ==
    /\ input \in Inputs
    /\ pc = "called"
    /\ result = None
    /\ error = ""
    /\ locals = None
    /\ PreviewIdle /\ ValidatorIdle /\ PresetIdle /\ RouteIdle /\ AppIdle

(* export function estimateMaterials(input): throws before any output is   *)
(* built, or returns the assembled EstimationResult.                       *)
estimateMaterials ==
    /\ pc = "called"
    /\ \E l \in {Destructured(input)} :
          IF ThrownError(l) # ""
          THEN /\ pc' = "threw"
               /\ error' = ThrownError(l)
               /\ result' = None
               /\ locals' = None
          ELSE \E scope \in {Execute(l, 1)} :
                  /\ pc' = "returned"
                  /\ result' = Some(EstimationResult(input, scope))
                  /\ locals' = Some(scope)
                  /\ error' = ""
    /\ UNCHANGED <<input, previewVars, validatorVars, presetVars, routeVars,
                 appVars>>

Next == estimateMaterials

Spec == Init /\ [][Next]_vars

(* The call as a function of its argument.                                 *)
Estimate(in) ==
    Let(Execute(Destructured(in), 1), LAMBDA scope : EstimationResult(in, scope))


-----------------------------------------------------------------------------
(* src/server/estimator.ts, src/client/src/lib/estimator.ts:               *)
(* validateEstimationInput(input: Partial<EstimationInput>): string[]      *)
(*                                                                         *)
(* The argument is a JSON-shaped object: every property is absent (None)   *)
(* or present with a number or, for mixRatio and densities, an object.     *)

(* !x for x a number or undefined: undefined and 0 are falsy.              *)
Falsy(opt) == opt = None \/ Number(opt[1]) = Zero

Truthy(opt) == ~ Falsy(opt)

(* x <= 0, x < c and x > c for a present number.                           *)
NotAbove(opt, c) == FLe(Number(opt[1]), Number(c))

Below(opt, c) == FLt(Number(opt[1]), Number(c))

Above(opt, c) == FLt(Number(c), Number(opt[1]))

(* if (cond) errors.push(msg)                                              *)
Push(errors, cond, msg) == IF cond THEN Append(errors, msg) ELSE errors

VOLUME_ERROR == "Volume must be a positive number"

(* The source writes the unit with a superscript 3.                        *)
VOLUME_WARNING == "Volume is very small (< 0.01 m3). Please verify the input"

MIX_RATIO_ERROR == "Mix ratio is required"

RATIO_ERROR ==
    [cement |-> "Cement ratio must be positive",
     sand   |-> "Sand ratio must be positive",
     agg    |-> "Aggregate ratio must be positive"]

DENSITY_ERROR ==
    [cement |-> "Cement density must be positive",
     sand   |-> "Sand density must be positive",
     agg    |-> "Aggregate density must be positive"]

DRY_FACTOR_ERROR == "Dry factor must be between 0 and 3"

WASTAGE_ERROR == "Wastage factor must be between 0% and 50%"

(* if (!input.volumeM3 || input.volumeM3 <= 0)                             *)
validateVolume(errors, in) ==
    Push(errors, Falsy(in.volumeM3) \/ NotAbove(in.volumeM3, Num(0)),
         VOLUME_ERROR)

(* if (input.volumeM3 && input.volumeM3 < 0.01)                            *)
validateSmallVolume(errors, in) ==
    Push(errors, Truthy(in.volumeM3) /\ Below(in.volumeM3, Rat(1, 100)),
         VOLUME_WARNING)

(* if (!part || part <= 0) errors.push(...)                                *)
validatePart(errors, ratio, m) ==
    Push(errors, Falsy(ratio[m]) \/ NotAbove(ratio[m], Num(0)), RATIO_ERROR[m])

(* if (!input.mixRatio) ... else { cement; sand; agg }                     *)
validateMixRatio_FirstOnly(errors, in) ==
    IF in.mixRatio = None THEN Append(errors, MIX_RATIO_ERROR)
    ELSE IF Len(validatePart(<<>>, in.mixRatio[1], "cement")) > 0
         THEN validatePart(errors, in.mixRatio[1], "cement")
    ELSE IF Len(validatePart(<<>>, in.mixRatio[1], "sand")) > 0
         THEN validatePart(errors, in.mixRatio[1], "sand")
    ELSE validatePart(errors, in.mixRatio[1], "agg")
validateMixRatio(errors, in) ==
    IF in.mixRatio = None THEN Append(errors, MIX_RATIO_ERROR)
    ELSE validatePart(validatePart(validatePart(errors, in.mixRatio[1], "cement"),
                                   in.mixRatio[1], "sand"),
                      in.mixRatio[1], "agg")

(* if (density && density <= 0) errors.push(...)                           *)
validateDensity(errors, densities, m) ==
    Push(errors, Truthy(densities[m]) /\ NotAbove(densities[m], Num(0)),
         DENSITY_ERROR[m])

(* if (input.densities) { cement; sand; agg }                              *)
validateDensities(errors, in) ==
    IF in.densities = None THEN errors
    ELSE validateDensity(validateDensity(validateDensity(errors,
                 in.densities[1], "cement"), in.densities[1], "sand"),
             in.densities[1], "agg")

(* if (input.dryFactor && (input.dryFactor <= 0 || input.dryFactor > 3))   *)
validateDryFactor(errors, in) ==
    Push(errors,
         Truthy(in.dryFactor)
             /\ (NotAbove(in.dryFactor, Num(0)) \/ Above(in.dryFactor, Num(3))),
         DRY_FACTOR_ERROR)

(* if (input.wastageFactor &&                                              *)
(*     (input.wastageFactor < 0 || input.wastageFactor > 50))              *)
validateWastageFactor(errors, in) ==
    Push(errors,
         Truthy(in.wastageFactor)
             /\ (Below(in.wastageFactor, Num(0))
                   \/ Above(in.wastageFactor, Num(50))),
         WASTAGE_ERROR)

(* The server's validator: the list after the six statements.              *)
validateEstimationInput(in) ==
    validateWastageFactor(validateDryFactor(validateDensities(
        validateMixRatio(validateSmallVolume(validateVolume(<<>>, in), in), in),
        in), in), in)

(* The client's validator: volume and mix ratio only.                      *)
clientValidateEstimationInput(in) ==
    validateMixRatio(validateSmallVolume(validateVolume(<<>>, in), in), in)

-----------------------------------------------------------------------------
(* The objects the validators are called with.                             *)

VolumeChoices ==
    {None, Some(Num(-1)), Some(Num(0)), Some(Rat(1, 200)), Some(Rat(1, 100)),
     Some(Num(1))}

PartChoices == {None, Some(Num(-1)), Some(Num(0)), Some(Num(2))}

MixRatioChoices ==
    {None} \cup {Some(r) : r \in [cement : PartChoices, sand : PartChoices,
                                  agg : PartChoices, aggregate : {None}]}

DensitiesChoices ==
    {None,
     Some([cement |-> None, sand |-> None, agg |-> None, aggregate |-> None]),
     Some([cement |-> Some(Num(1440)), sand |-> Some(Num(1600)),
           agg |-> Some(Num(1750)), aggregate |-> None]),
     Some([cement |-> Some(Num(0)), sand |-> Some(Num(1600)),
           agg |-> Some(Num(1750)), aggregate |-> None]),
     Some([cement |-> Some(Num(1440)), sand |-> Some(Num(-1)),
           agg |-> None, aggregate |-> None]),
     Some([cement |-> Some(Num(-5)), sand |-> Some(Num(-5)),
           agg |-> Some(Num(-5)), aggregate |-> None]),
     Some([cement |-> Some(Num(1440)), sand |-> Some(Num(1600)),
           agg |-> Some(Num(0)), aggregate |-> None])}

DryFactorChoices ==
    {None, Some(Num(-1)), Some(Num(0)), Some(DEFAULT_DRY_FACTOR), Some(Num(3)),
     Some(Rat(7, 2))}

WastageFactorChoices ==
    {None, Some(Num(-1)), Some(Num(0)), Some(Num(5)), Some(Num(50)),
     Some(Rat(101, 2))}

GoodMixRatio ==
    [cement |-> Some(Num(1)), sand |-> Some(Num(2)), agg |-> Some(Num(4)),
     aggregate |-> None]

BadMixRatio ==
    [cement |-> None, sand |-> Some(Num(0)), agg |-> Some(Num(4)),
     aggregate |-> None]

(* Every volume with every mix ratio, the optional properties left out;    *)
(* and three objects with every choice of the optional properties.         *)
Bodies ==
    [volumeM3 : VolumeChoices, mixRatio : MixRatioChoices, densities : {None},
     dryFactor : {None}, wastageFactor : {None}]
    \cup [volumeM3 : {Some(Num(1))}, mixRatio : {Some(GoodMixRatio)},
          densities : DensitiesChoices, dryFactor : DryFactorChoices,
          wastageFactor : WastageFactorChoices]
    \cup [volumeM3 : {Some(Num(0))}, mixRatio : {None, Some(BadMixRatio)},
          densities : DensitiesChoices, dryFactor : DryFactorChoices,
          wastageFactor : WastageFactorChoices]

ValidatorInit ==
    /\ body \in Bodies
    /\ validated = None
    /\ clientValidated = None
    /\ EngineIdle /\ PreviewIdle /\ PresetIdle /\ RouteIdle /\ AppIdle

(* validateEstimationInput(body) on the server returns its list.           *)
ServerValidate ==
    /\ validated = None
    /\ validated' = Some(validateEstimationInput(body))
    /\ UNCHANGED <<body, clientValidated, engineVars, previewVars, presetVars,
                   routeVars, appVars>>

(* validateEstimationInput(body) in the client returns its list.           *)
ClientValidate ==
    /\ clientValidated = None
    /\ clientValidated' = Some(clientValidateEstimationInput(body))
    /\ UNCHANGED <<body, validated, engineVars, previewVars, presetVars,
                   routeVars, appVars>>

ValidatorNext == ServerValidate \/ ClientValidate

ValidatorSpec == ValidatorInit /\ [][ValidatorNext]_vars

-----------------------------------------------------------------------------
(* getPresetMixRatios(): Record<string, MixRatio>, in the server's and in   *)
(* the client's estimator.  `heap` holds the objects the calls have         *)
(* returned, `returned` the last call's return value: who called, the       *)
(* reference handed out and the object it refers to at that moment.        *)

clientGetPresetMixRatios ==
    [c \in {"C20/25", "C25/30", "C30/37", "C35/45"} |->
        CASE c = "C20/25" -> [cement |-> Num(1), sand |-> Num(2), agg |-> Num(4)]
          [] c = "C25/30" -> [cement |-> Num(1), sand |-> Rat(3, 2), agg |-> Num(3)]
          [] c = "C30/37" -> [cement |-> Num(1), sand |-> Rat(6, 5), agg |-> Rat(12, 5)]
          [] c = "C35/45" -> [cement |-> Num(1), sand |-> Num(1), agg |-> Num(2)]]

MaxCalls == 3

MaxMutations == 2

(* return { ... }: the object literal is evaluated by every call and makes *)
(* a new object: <<the heap with it, its reference>>.                      *)
NewObject_Shared(h, obj) == IF h = <<>> THEN <<<<obj>>, 1>> ELSE <<h, 1>>
NewObject(h, obj) == <<Append(h, obj), Len(h) + 1>>

Return(by, alloc) ==
    /\ heap' = alloc[1]
    /\ returned' = Some([by |-> by, ref |-> alloc[2],
                         value |-> alloc[1][alloc[2]]])
    /\ UNCHANGED <<mutations, engineVars, previewVars, validatorVars,
                   routeVars, appVars>>

(* A caller on the server calls getPresetMixRatios().                      *)
ServerPresets ==
    /\ Len(heap) < MaxCalls
    /\ Return("server", NewObject(heap, getPresetMixRatios))

(* A caller in the client calls getPresetMixRatios().                      *)
ClientPresets ==
    /\ Len(heap) < MaxCalls
    /\ Return("client", NewObject(heap, clientGetPresetMixRatios))

(* A caller writes a part of a MixRatio of a mapping it was handed.        *)
MutateRatio ==
    /\ mutations < MaxMutations
    /\ \E ref \in DOMAIN heap :
          \E label \in DOMAIN heap[ref], m \in {"cement", "sand", "agg"} :
              heap' = [heap EXCEPT ![ref][label][m] = Num(9)]
    /\ mutations' = mutations + 1
    /\ UNCHANGED <<returned, engineVars, previewVars, validatorVars, routeVars, appVars>>

(* A caller deletes an entry of a mapping it was handed.                   *)
DeleteEntry ==
    /\ mutations < MaxMutations
    /\ \E ref \in DOMAIN heap :
          \E label \in DOMAIN heap[ref] :
              heap' = [heap EXCEPT ![ref] =
                          [c \in DOMAIN @ \ {label} |-> @[c]]]
    /\ mutations' = mutations + 1
    /\ UNCHANGED <<returned, engineVars, previewVars, validatorVars, routeVars, appVars>>

PresetInit ==
    EngineIdle /\ PreviewIdle /\ ValidatorIdle /\ PresetIdle /\ RouteIdle /\ AppIdle

PresetNext == ServerPresets \/ ClientPresets \/ MutateRatio \/ DeleteEntry

PresetSpec == PresetInit /\ [][PresetNext]_vars

-----------------------------------------------------------------------------
(* src/client/src/lib/estimator.ts: estimateMaterials, the preview.  Its   *)
(* guards are the volume and the mix-ratio guard; its const declarations   *)
(* and the returned object are, statement for statement, the server's.     *)

clientThrownError(l) ==
    IF VolumeCheck(l) THEN "Volume must be greater than 0"
    ELSE IF MixRatioCheck(l) THEN "All mix ratio parts must be greater than 0"
    ELSE ""

clientExecute(l) == Execute(l, 1)

clientEstimationResult(in, scope) == EstimationResult(in, scope)

(* The client's estimateMaterials(input) throws or returns.                *)
clientEstimateMaterials ==
    /\ clientPc = "called"
    /\ \E l \in {Destructured(input)} :
          IF clientThrownError(l) # ""
          THEN /\ clientPc' = "threw"
               /\ clientError' = clientThrownError(l)
               /\ clientResult' = None
          ELSE \E scope \in {clientExecute(l)} :
                  /\ clientPc' = "returned"
                  /\ clientResult' = Some(clientEstimationResult(input, scope))
                  /\ clientError' = ""
    /\ UNCHANGED <<engineVars, validatorVars, presetVars, routeVars, appVars>>

(* The form's values go to the preview and to the server.                  *)
PreviewInit ==
    /\ input \in OptionInputs
    /\ pc = "called"
    /\ result = None
    /\ error = ""
    /\ locals = None
    /\ clientPc = "called"
    /\ clientResult = None
    /\ clientError = ""
    /\ ValidatorIdle /\ PresetIdle /\ RouteIdle /\ AppIdle

PreviewNext == estimateMaterials \/ clientEstimateMaterials

PreviewSpec == PreviewInit /\ [][PreviewNext]_vars

-----------------------------------------------------------------------------
(* src/server/routes.ts (and its other revision, src/unnamed/part_007):    *)
(* estimationInputSchema and app.post('/api/v1/estimate', ...).            *)
(*                                                                         *)
(* `revision` names the routes file that is deployed and the major version *)
(* of zod it runs with; `request` is req.body; `handler` the position of   *)
(* the handler; `calls` the functions it has called so far.                *)

Revisions == [file : {"routes.ts", "part_007"}, zod : {3, 4}]

(* The name under which a revision's schema reads the aggregate part.      *)
SchemaAgg(rev) == IF rev.file = "routes.ts" THEN "aggregate" ELSE "agg"

(* z.number().positive(): a present number > 0.                            *)
IsPositive(opt) == opt # None /\ FLt(Zero, Number(opt[1]))

(* z.number().positive().default(d), for d a number or undefined: zod 3    *)
(* parses the default in place of an absent value, zod 4 returns it.       *)
DefaultedOk(rev, opt, dflt) ==
    IF opt # None THEN IsPositive(opt)
    ELSE dflt # None \/ rev.zod = 4

Defaulted(opt, dflt) == IF opt # None THEN opt ELSE dflt

(* DEFAULT_DENSITIES as the schema reads it: the engine's table has no     *)
(* property `aggregate`.                                                   *)
SchemaDefaultDensities ==
    [cement |-> Some(DEFAULT_DENSITIES.cement),
     sand |-> Some(DEFAULT_DENSITIES.sand),
     agg |-> Some(DEFAULT_DENSITIES.agg),
     aggregate |-> None]

(* mixRatio: z.object({cement, sand, <agg>}), every part required.         *)
MixRatioOk(rev, b) ==
    /\ b.mixRatio # None
    /\ IsPositive(b.mixRatio[1].cement)
    /\ IsPositive(b.mixRatio[1].sand)
    /\ IsPositive(b.mixRatio[1][SchemaAgg(rev)])

(* The three fields of a densities object, each with its default.          *)
DensityFieldsOk(rev, d) ==
    \A m \in {"cement", "sand", SchemaAgg(rev)} :
        DefaultedOk(rev, d[m], SchemaDefaultDensities[m])

(* densities: z.object({...}).default(DEFAULT_DENSITIES) in routes.ts,     *)
(* z.object({...}) in the other revision.                                  *)
DensitiesOk(rev, b) ==
    IF b.densities # None THEN DensityFieldsOk(rev, b.densities[1])
    ELSE /\ rev.file = "routes.ts"
         /\ rev.zod = 4 \/ DensityFieldsOk(rev, SchemaDefaultDensities)

(* dryFactor: z.number().positive().max(3).default(1.54)                   *)
DryFactorOk(b) ==
    b.dryFactor = None
        \/ (IsPositive(b.dryFactor) /\ ~ Above(b.dryFactor, Num(3)))

(* wastageFactor: z.number().min(0).max(50).default(5.0)                   *)
WastageFactorOk(b) ==
    b.wastageFactor = None
        \/ (~ Below(b.wastageFactor, Num(0)) /\ ~ Above(b.wastageFactor, Num(50)))

(* estimationInputSchema.parse(body) returns (it throws a ZodError         *)
(* otherwise).                                                             *)
ParseOk(rev, b) ==
    /\ IsPositive(b.volumeM3)
    /\ MixRatioOk(rev, b)
    /\ DensitiesOk(rev, b)
    /\ DryFactorOk(b)
    /\ WastageFactorOk(b)

(* An object schema keeps the keys it declares.                            *)
Stripped(rev, obj) ==
    [m \in {"cement", "sand", "agg", "aggregate"} |->
        IF m \in {"cement", "sand", SchemaAgg(rev)} THEN obj[m] ELSE None]

(* The densities of the parsed object: the default object when absent,     *)
(* else the declared keys, each with its default.                          *)
ParsedDensities(rev, b) ==
    IF b.densities = None THEN SchemaDefaultDensities
    ELSE [m \in {"cement", "sand", "agg", "aggregate"} |->
             Defaulted(Stripped(rev, b.densities[1])[m],
                       Stripped(rev, SchemaDefaultDensities)[m])]

(* The value estimationInputSchema.parse(body) returns.                    *)
Parsed(rev, b) ==
    [volumeM3      |-> b.volumeM3,
     mixRatio      |-> Some(Stripped(rev, b.mixRatio[1])),
     densities     |-> Some(ParsedDensities(rev, b)),
     dryFactor     |-> Defaulted(b.dryFactor, Some(DEFAULT_DRY_FACTOR)),
     wastageFactor |-> Defaulted(b.wastageFactor, Some(DEFAULT_WASTAGE_FACTOR))]

(* A property the engine reads: its number, or undefined.                  *)
Read(opt) == IF opt = None THEN Undefined ELSE opt[1]

(* The parsed object as estimateMaterials reads it.                        *)
AsEstimationInput(p) ==
    [volumeM3      |-> Read(p.volumeM3),
     mixRatio      |-> [m \in {"cement", "sand", "agg"} |-> Read(p.mixRatio[1][m])],
     densities     |-> Some([m \in {"cement", "sand", "agg"} |->
                                Read(p.densities[1][m])]),
     dryFactor     |-> p.dryFactor,
     wastageFactor |-> p.wastageFactor]

(* res.status(400).json({message, errors})                                 *)
BadRequest_FirstOnly(errors) ==
    [status |-> 400, message |-> "Invalid input parameters",
     errors |-> <<errors[1]>>]
BadRequest(errors) ==
    [status |-> 400, message |-> "Invalid input parameters", errors |-> errors]

(* catch (error): res.status(500).json({message: error.message})           *)
ServerError(message) == [status |-> 500, message |-> message]

(* res.json({results, links})                                              *)
Success(r) ==
    [status |-> 200, results |-> r,
     links |-> [downloadCsv  |-> "/api/v1/estimate/export/csv",
                downloadPdf  |-> "/api/v1/estimate/export/pdf",
                downloadJson |-> "/api/v1/estimate/export/json"]]

(* The request bodies: a ratio or a densities object under the engine's    *)
(* name for the aggregate part, under the schema's, or under both.         *)
Namings == {"agg", "aggregate", "both"}

Named(c, s, a, naming) ==
    [cement |-> c, sand |-> s,
     agg |-> IF naming = "aggregate" THEN None ELSE a,
     aggregate |-> IF naming = "agg" THEN None ELSE a]

RequestMixRatios ==
    {None, Some(Named(None, Some(Num(2)), Some(Num(4)), "agg"))}
    \cup {Some(Named(Some(Num(1)), Some(Num(2)), Some(Num(4)), n)) : n \in Namings}
    \cup {Some(Named(Some(Num(1)), Some(Num(0)), Some(Num(4)), n)) : n \in Namings}

RequestDensities ==
    {None, Some(Named(None, None, None, "agg"))}
    \cup {Some(Named(Some(Num(1440)), Some(Num(1600)), Some(Num(1750)), n)) :
              n \in Namings}
    \cup {Some(Named(Some(Num(0)), Some(Num(1600)), Some(Num(1750)), n)) :
              n \in Namings}

RequestVolumes ==
    {None, Some(Num(-1)), Some(Num(0)), Some(Rat(1, 200)), Some(Num(1))}

RequestDryFactors ==
    {None, Some(Num(0)), Some(DEFAULT_DRY_FACTOR), Some(Rat(7, 2))}

RequestWastageFactors ==
    {None, Some(Num(-1)), Some(Num(0)), Some(Num(5)), Some(Rat(101, 2))}

(* Every volume with every mix ratio, the optional properties left out;    *)
(* and a 1 m3 pour at 1:2:4 with every choice of the optional properties.  *)
Requests ==
    [volumeM3 : RequestVolumes, mixRatio : RequestMixRatios,
     densities : {None}, dryFactor : {None}, wastageFactor : {None}]
    \cup [volumeM3 : {Some(Num(1))},
          mixRatio : {Some(Named(Some(Num(1)), Some(Num(2)), Some(Num(4)), n)) :
                         n \in Namings},
          densities : RequestDensities, dryFactor : RequestDryFactors,
          wastageFactor : RequestWastageFactors]

RouteInit ==
    /\ revision \in Revisions
    /\ request \in Requests
    /\ handler = "received"
    /\ calls = <<>>
    /\ validationErrors = None
    /\ parsed = None
    /\ results = None
    /\ response = None
    /\ EngineIdle /\ PreviewIdle /\ ValidatorIdle /\ PresetIdle /\ AppIdle

RouteRest == <<engineVars, previewVars, validatorVars, presetVars, appVars>>

(* const validationErrors = validateEstimationInput(req.body)              *)
RouteValidate ==
    /\ handler = "received"
    /\ validationErrors' = Some(validateEstimationInput(request))
    /\ calls' = Append(calls, "validateEstimationInput")
    /\ handler' = "validated"
    /\ UNCHANGED <<revision, request, parsed, results, response, RouteRest>>

(* if (validationErrors.length > 0) return res.status(400).json(...)       *)
RouteReject ==
    /\ handler = "validated"
    /\ Len(validationErrors[1]) > 0
    /\ response' = Some(BadRequest(validationErrors[1]))
    /\ handler' = "done"
    /\ UNCHANGED <<revision, request, calls, validationErrors, parsed, results,
                   RouteRest>>

(* const input = estimationInputSchema.parse(req.body); a ZodError is      *)
(* caught and answered with status 500.                                    *)
RouteParse ==
    /\ handler = "validated"
    /\ Len(validationErrors[1]) = 0
    /\ calls' = Append(calls, "estimationInputSchema.parse")
    /\ IF ParseOk(revision, request)
       THEN /\ parsed' = Some(Parsed(revision, request))
            /\ handler' = "parsed"
            /\ UNCHANGED response
       ELSE /\ response' = Some(ServerError("ZodError"))
            /\ handler' = "done"
            /\ UNCHANGED parsed
    /\ UNCHANGED <<revision, request, validationErrors, results, RouteRest>>

(* const results = estimateMaterials(input); res.json({results, links});   *)
(* an Error of the engine is caught and answered with status 500.          *)
RouteEstimate ==
    /\ handler = "parsed"
    /\ calls' = Append(calls, "estimateMaterials")
    /\ handler' = "done"
    /\ \E in \in {AsEstimationInput(parsed[1])} :
          \E l \in {Destructured(in)} :
             IF ThrownError(l) # ""
             THEN /\ response' = Some(ServerError(ThrownError(l)))
                  /\ UNCHANGED results
             ELSE \E r \in {EstimationResult(parsed[1], Execute(l, 1))} :
                     /\ results' = Some(r)
                     /\ response' = Some(Success(r))
    /\ UNCHANGED <<revision, request, validationErrors, parsed, RouteRest>>

RouteNext == RouteValidate \/ RouteReject \/ RouteParse \/ RouteEstimate

RouteSpec == RouteInit /\ [][RouteNext]_vars

-----------------------------------------------------------------------------
(* Concurrent callers of src/server/estimator.ts.                          *)
(*                                                                         *)
(* The three exported functions are synchronous: a call runs to completion *)
(* before another caller's code runs, so callers interleave call by call.  *)
(* `defaults` is the state of the module (the objects its top-level consts *)
(* are bound to, and the table getPresetMixRatios builds); callers[c] is   *)
(* what caller c is doing: the function and argument of its call and the   *)
(* value it got back.                                                      *)

Callers == {"A", "B"}

ModuleConstants ==
    [DEFAULT_DENSITIES      |-> DEFAULT_DENSITIES,
     DEFAULT_MATERIAL_COSTS |-> DEFAULT_MATERIAL_COSTS,
     presets                |-> getPresetMixRatios]

Outside == [at |-> "outside", fn |-> "", arg |-> None, ret |-> None]

(* The arguments callers pass: 1 m3 at 1:2:4 with and without densities of *)
(* their own, a 1.53 m3 pour, and an input with a part of 0.               *)
CallerInputs ==
    {[volumeM3 |-> Num(1), mixRatio |-> getPresetMixRatios["C20/25"],
      densities |-> d, dryFactor |-> None, wastageFactor |-> None] :
        d \in {None,
               Some([cement |-> Num(1000), sand |-> Num(1000), agg |-> Num(1000)])}}
    \cup {[volumeM3 |-> Rat(153, 100),
           mixRatio |-> [cement |-> Num(1), sand |-> Num(1), agg |-> Num(1)],
           densities |-> None, dryFactor |-> None, wastageFactor |-> Some(Num(0))],
          [volumeM3 |-> Num(1),
           mixRatio |-> [cement |-> Num(1), sand |-> Num(0), agg |-> Num(1)],
           densities |-> None, dryFactor |-> None, wastageFactor |-> None]}

CallerBodies ==
    {b \in Bodies :
        /\ b.volumeM3 \in {None, Some(Num(1))}
        /\ b.mixRatio \in {Some(GoodMixRatio), Some(BadMixRatio)}
        /\ b.densities = None /\ b.dryFactor = None
        /\ b.wastageFactor \in {None, Some(Num(0))}}

Calls ==
    {[fn |-> "estimateMaterials", arg |-> Some(in)] : in \in CallerInputs}
    \cup {[fn |-> "validateEstimationInput", arg |-> Some(b)] : b \in CallerBodies}
    \cup {[fn |-> "getPresetMixRatios", arg |-> None]}

(* The input as the engine reads it when the module's objects hold defs:   *)
(* `densities = DEFAULT_DENSITIES` reads the object the const is bound to. *)
ReadWith(defs, in) ==
    [in EXCEPT !.densities = Some(Default(in.densities, defs.DEFAULT_DENSITIES))]

(* What a call returns (or throws) when the module's objects hold defs.    *)
Outcome(defs, fn, arg) ==
    CASE fn = "estimateMaterials" ->
            Let(Destructured(ReadWith(defs, arg[1])),
                LAMBDA l : IF ThrownError(l) # ""
                           THEN [threw |-> ThrownError(l)]
                           ELSE [value |-> EstimationResult(arg[1], Execute(l, 1))])
      [] fn = "validateEstimationInput" ->
            [value |-> validateEstimationInput(arg[1])]
      [] fn = "getPresetMixRatios" -> [value |-> defs.presets]

(* The module's objects after a call: no function assigns to a property of *)
(* DEFAULT_DENSITIES or DEFAULT_MATERIAL_COSTS, and the preset table is a  *)
(* literal rebuilt by each call.                                           *)
ModuleAfter_Remembered(defs, fn, arg) ==
    IF fn = "estimateMaterials" /\ arg[1].densities # None
    THEN [defs EXCEPT !.DEFAULT_DENSITIES = arg[1].densities[1]]
    ELSE defs
ModuleAfter(defs, fn, arg) == defs

ConcurrentInit ==
    /\ defaults = ModuleConstants
    /\ callers = [c \in Callers |-> Outside]
    /\ EngineIdle /\ PreviewIdle /\ ValidatorIdle /\ PresetIdle /\ RouteIdle
    /\ FormatIdle /\ FormIdle /\ ApiIdle /\ StorageIdle /\ AuthIdle

(* Caller c reaches a call of one of the three functions.                  *)
Enter(c) ==
    /\ callers[c].at = "outside"
    /\ \E call \in Calls :
          callers' = [callers EXCEPT ![c] =
                         [at |-> "calling", fn |-> call.fn, arg |-> call.arg,
                          ret |-> None]]
    /\ UNCHANGED <<defaults, ConcurrentRest>>

(* The call of caller c runs, from its first statement to its return.      *)
Run(c) ==
    /\ callers[c].at = "calling"
    /\ callers' = [callers EXCEPT ![c].at = "returned",
                                  ![c].ret = Some(Outcome(defaults, callers[c].fn,
                                                           callers[c].arg))]
    /\ defaults' = ModuleAfter(defaults, callers[c].fn, callers[c].arg)
    /\ UNCHANGED ConcurrentRest

(* Caller c has used the value and goes on.                                *)
Leave(c) ==
    /\ callers[c].at = "returned"
    /\ callers' = [callers EXCEPT ![c] = Outside]
    /\ UNCHANGED <<defaults, ConcurrentRest>>

ConcurrentNext == \E c \in Callers : Enter(c) \/ Run(c) \/ Leave(c)

ConcurrentSpec == ConcurrentInit /\ [][ConcurrentNext]_vars

-----------------------------------------------------------------------------
(* formatEstimationResults (src/server/estimator.ts): the display form of  *)
(* an EstimationResult.  A template literal shows a number by its shortest *)
(* decimal form, which denotes the same number: a displayed figure is      *)
(* modelled by the number it shows, without its unit.                      *)

(* x.toFixed(2) of a figure.                                               *)
Fixed2(x) == ToFixed(Number(x), 2)

(* (figure * DEFAULT_MATERIAL_COSTS.m).toFixed(2)                          *)
shownCost(figure, m) ==
    ToFixed(FMul(Number(figure), Number(DEFAULT_MATERIAL_COSTS[m])), 2)

(* results.parameters.dryFactor?.toFixed(2) || "1.54": the string of       *)
(* toFixed is never empty, so the default stands for undefined only.       *)
shownDryFactor(p) ==
    IF p.dryFactor = None THEN Rat(154, 100) ELSE Fixed2(p.dryFactor[1])

(* `${results.parameters.wastageFactor || 5}%`                             *)
shownWastageFactor(p) == IF Falsy(p.wastageFactor) THEN Num(5) ELSE p.wastageFactor[1]

formatEstimationResults(r) ==
    [materials |->
        [cement |-> [name |-> "Portland Cement", volume |-> r.cement.volume,
                     mass |-> r.cement.mass, units |-> r.cement.bags,
                     tonnes |-> r.cement.tonnes,
                     cost |-> shownCost(Num(r.cement.bags), "cement")],
         sand |-> [name |-> "Fine Sand", volume |-> r.sand.volume,
                   mass |-> r.sand.mass, units |-> r.sand.tonnes,
                   cost |-> shownCost(r.sand.tonnes, "sand")],
         aggregate |-> [name |-> "Coarse Aggregate", volume |-> r.aggregate.volume,
                        mass |-> r.aggregate.mass, units |-> r.aggregate.tonnes,
                        cost |-> shownCost(r.aggregate.tonnes, "agg")]],
     totals |-> [volume |-> r.totals.volume, mass |-> r.totals.mass,
                 cost |-> Fixed2(r.totals.estimatedCost)],
     parameters |-> [mixRatio |-> <<r.parameters.mixRatio.cement,
                                    r.parameters.mixRatio.sand,
                                    r.parameters.mixRatio.agg>>,
                     dryFactor |-> shownDryFactor(r.parameters),
                     wastageFactor |-> shownWastageFactor(r.parameters)]]

(* An estimate is computed and then formatted for display.                 *)
FormatInit ==
    /\ input \in OptionInputs
    /\ pc = "called"
    /\ result = None
    /\ error = ""
    /\ locals = None
    /\ formatted = None
    /\ PreviewIdle /\ ValidatorIdle /\ PresetIdle /\ RouteIdle /\ ConcurrentIdle
    /\ FormIdle /\ ApiIdle /\ StorageIdle /\ AuthIdle

Format ==
    /\ pc = "returned"
    /\ formatted = None
    /\ formatted' = Some(formatEstimationResults(result[1]))
    /\ UNCHANGED <<engineVars, FormatRest>>

FormatNext == estimateMaterials \/ Format

FormatSpec == FormatInit /\ [][FormatNext]_vars

-----------------------------------------------------------------------------
(* The estimation form (src/client/src/components/estimation-form.tsx).    *)
(*                                                                         *)
(* props are the properties the page mounts the form with, form the values *)
(* of its fields, presets the data of the /api/materials/presets query     *)
(* (None until it has loaded), edited whether the user has typed into a    *)
(* ratio field.                                                            *)

(* The pages that mount the form: dashboard and new-estimate pass no class, *)
(* the demo page passes demoMode and fixedConcreteClass "C25/30".          *)
Pages ==
    {[demoMode |-> FALSE, fixedConcreteClass |-> None],
     [demoMode |-> TRUE, fixedConcreteClass |-> Some("C25/30")]}

ConcreteClasses == {"C20/25", "C25/30", "C30/37", "C35/45"}

(* What the user types into a ratio field.                                 *)
TypedParts == {Num(0), Num(1), Num(3)}

(* useForm({defaultValues})                                                *)
defaultValues(p) ==
    [concreteClass |-> Default(p.fixedConcreteClass, "C20/25"),
     cementRatio   |-> Num(1),
     sandRatio     |-> Num(2),
     aggRatio      |-> Num(4)]

(* handleConcreteClassChange(value)                                        *)
handleConcreteClassChange(f, data, value) ==
    IF data # None /\ value \in DOMAIN data[1].mixRatios
    THEN [f EXCEPT !.concreteClass = value,
                   !.cementRatio = data[1].mixRatios[value].cement,
                   !.sandRatio = data[1].mixRatios[value].sand,
                   !.aggRatio = data[1].mixRatios[value].agg]
    ELSE [f EXCEPT !.concreteClass = value]

FormInit ==
    /\ props \in Pages
    /\ presets = None
    /\ form = defaultValues(props)
    /\ edited = FALSE
    /\ EngineIdle /\ PreviewIdle /\ ValidatorIdle /\ PresetIdle /\ RouteIdle
    /\ ConcurrentIdle /\ FormatIdle /\ ApiIdle /\ StorageIdle /\ AuthIdle

(* The presets query resolves with the body of GET /api/materials/presets. *)
PresetsLoaded ==
    /\ presets = None
    /\ presets' = Some([mixRatios |-> getPresetMixRatios,
                        defaultDensities |-> DEFAULT_DENSITIES])
    /\ UNCHANGED <<props, form, edited, FormRest>>

(* The user picks a class; the select is disabled in demo mode.            *)
SelectClass ==
    /\ ~ props.demoMode
    /\ \E value \in ConcreteClasses :
          form' = handleConcreteClassChange(form, presets, value)
    /\ UNCHANGED <<props, presets, edited, FormRest>>

(* The user types a number into one of the three ratio fields.             *)
EditRatio ==
    /\ \E field \in {"cementRatio", "sandRatio", "aggRatio"}, v \in TypedParts :
          form' = [form EXCEPT ![field] = v]
    /\ edited' = TRUE
    /\ UNCHANGED <<props, presets, FormRest>>

FormNext == PresetsLoaded \/ SelectClass \/ EditRatio

FormSpec == FormInit /\ [][FormNext]_vars

-----------------------------------------------------------------------------
(* The authenticated project and estimate routes (src/server/routes.ts)    *)
(* over the database storage (src/server/storage.ts, lines 58-143).        *)
(*                                                                         *)
(* projects[id] and estimates[id] are the rows of the two tables (None: no *)
(* such row), issued the ids the database has given out, apiRequest the    *)
(* request last handled and apiResponse its answer.  onDelete is what the  *)
(* estimates table does when its project row is deleted: the foreign key   *)
(* is declared in @shared/schema, so every behaviour is admitted.          *)

Users == {"A", "B"}

ProjectIds == {"p1", "p2"}

EstimateIds == {"e1"}

Names == {"first", "second"}

OnDeleteRules == {"cascade", "restrict", "no action"}

(* The JSON bodies clients send.  A new project is named "first", with or  *)
(* without a userId of the client's choosing; an update renames to         *)
(* "second" or names another owner and another project; a new estimate     *)
(* names its project.                                                      *)
Body(name, userId, projectId) ==
    [name |-> name, userId |-> userId, projectId |-> projectId]

ProjectBodies ==
    {Body(Some("first"), u, None) : u \in {None} \cup {Some(v) : v \in Users}}

UpdateBodies ==
    {Body(Some("second"), None, None)}
    \cup {Body(None, Some(u), Some(p)) : u \in Users, p \in ProjectIds}

EstimateBodies == {Body(Some("first"), None, Some(p)) : p \in ProjectIds}

Reply(status, payload) == [status |-> status, body |-> payload]

(* storage.getProject(id), storage.getEstimate(id): the row or undefined.  *)
getProject(id) == projects[id]

getEstimate(id) == estimates[id]

(* storage.getProjectEstimates(projectId)                                  *)
getProjectEstimates(projectId) ==
    {e \in EstimateIds :
        estimates[e] # None /\ estimates[e][1].projectId = projectId}

(* `if (!project) 404; if (project.userId !== userId) 403` of the project  *)
(* routes: the status that ends the request, 0 to go on.                   *)
ProjectGuard_ExistsOnly(user, id) ==
    IF getProject(id) = None THEN 404 ELSE 0
ProjectGuard(user, id) ==
    IF getProject(id) = None THEN 404
    ELSE IF getProject(id)[1].userId # user THEN 403
    ELSE 0

(* `if (!estimate) 404; if (!project || project.userId !== sub) 403` of    *)
(* the estimate routes.                                                    *)
EstimateGuard(user, id) ==
    IF getEstimate(id) = None THEN 404
    ELSE IF \/ getProject(getEstimate(id)[1].projectId) = None
            \/ getProject(getEstimate(id)[1].projectId)[1].userId # user
         THEN 403
    ELSE 0

Message(status) ==
    CASE status = 404 -> "not found"
      [] status = 403 -> "Access denied"
      [] OTHER -> ""

(* const { name, location, description, tags } = ...parse(req.body): the   *)
(* whitelisted properties of the body; a property left undefined is not    *)
(* written by set().                                                       *)
safeUpdates(row, b) ==
    [row EXCEPT !.name = IF b.name = None THEN @ ELSE b.name[1]]

ApiInit ==
    /\ onDelete \in OnDeleteRules
    /\ projects = [p \in ProjectIds |-> None]
    /\ estimates = [e \in EstimateIds |-> None]
    /\ issued = {}
    /\ apiRequest = None
    /\ apiResponse = None
    /\ EngineIdle /\ PreviewIdle /\ ValidatorIdle /\ PresetIdle /\ RouteIdle
    /\ ConcurrentIdle /\ FormatIdle /\ FormIdle /\ StorageIdle /\ AuthIdle

Handled(user, method, path, id, b, reply) ==
    /\ apiRequest' = Some([user |-> user, method |-> method, path |-> path,
                           id |-> id, body |-> b])
    /\ apiResponse' = Some(reply)

(* POST /api/projects: insertProjectSchema.parse({...req.body, userId}).   *)
PostProject ==
    \E user \in Users, b \in ProjectBodies, id \in ProjectIds \ issued :
        /\ projects' = [projects EXCEPT ![id] =
                           Some([userId |-> user, name |-> b.name[1]])]
        /\ issued' = issued \cup {id}
        /\ Handled(user, "POST", "/api/projects", id, Some(b),
                   Reply(201, projects'[id]))
        /\ UNCHANGED <<onDelete, estimates, ApiRest>>

(* GET /api/projects/:id                                                   *)
GetProject ==
    \E user \in Users, id \in ProjectIds :
        /\ Handled(user, "GET", "/api/projects/:id", id, None,
                   IF ProjectGuard(user, id) # 0
                   THEN Reply(ProjectGuard(user, id), None)
                   ELSE Reply(200, getProject(id)))
        /\ UNCHANGED <<onDelete, projects, estimates, issued, ApiRest>>

(* PUT /api/projects/:id                                                   *)
PutProject ==
    \E user \in Users, id \in ProjectIds, b \in UpdateBodies :
        /\ IF ProjectGuard(user, id) # 0
           THEN /\ UNCHANGED projects
                /\ Handled(user, "PUT", "/api/projects/:id", id, Some(b),
                           Reply(ProjectGuard(user, id), None))
           ELSE /\ projects' = [projects EXCEPT ![id] =
                                   Some(safeUpdates(projects[id][1], b))]
                /\ Handled(user, "PUT", "/api/projects/:id", id, Some(b),
                           Reply(200, projects'[id]))
        /\ UNCHANGED <<onDelete, estimates, issued, ApiRest>>

(* DELETE /api/projects/:id; the delete of the row fails (status 500) when *)
(* estimates refer to it and the foreign key restricts.                    *)
DeleteProject ==
    \E user \in Users, id \in ProjectIds :
        /\ IF ProjectGuard(user, id) # 0
           THEN /\ UNCHANGED <<projects, estimates>>
                /\ Handled(user, "DELETE", "/api/projects/:id", id, None,
                           Reply(ProjectGuard(user, id), None))
           ELSE IF onDelete = "restrict" /\ getProjectEstimates(id) # {}
           THEN /\ UNCHANGED <<projects, estimates>>
                /\ Handled(user, "DELETE", "/api/projects/:id", id, None,
                           Reply(500, None))
           ELSE /\ projects' = [projects EXCEPT ![id] = None]
                /\ estimates' =
                      IF onDelete = "cascade"
                      THEN [e \in EstimateIds |->
                               IF e \in getProjectEstimates(id) THEN None
                               ELSE estimates[e]]
                      ELSE estimates
                /\ Handled(user, "DELETE", "/api/projects/:id", id, None,
                           Reply(204, None))
        /\ UNCHANGED <<onDelete, issued, ApiRest>>

(* GET /api/projects/:projectId/estimates                                  *)
GetProjectEstimates ==
    \E user \in Users, id \in ProjectIds :
        /\ Handled(user, "GET", "/api/projects/:projectId/estimates", id, None,
                   IF ProjectGuard(user, id) # 0
                   THEN Reply(ProjectGuard(user, id), None)
                   ELSE Reply(200, Some(getProjectEstimates(id))))
        /\ UNCHANGED <<onDelete, projects, estimates, issued, ApiRest>>

(* POST /api/estimates: `if (!project || project.userId !== userId) 403`.  *)
PostEstimate ==
    \E user \in Users, b \in EstimateBodies, id \in EstimateIds \ issued :
        /\ IF \/ getProject(b.projectId[1]) = None
              \/ getProject(b.projectId[1])[1].userId # user
           THEN /\ UNCHANGED <<estimates, issued>>
                /\ Handled(user, "POST", "/api/estimates", id, Some(b),
                           Reply(403, None))
           ELSE /\ estimates' = [estimates EXCEPT ![id] =
                                    Some([projectId |-> b.projectId[1],
                                          name |-> b.name[1]])]
                /\ issued' = issued \cup {id}
                /\ Handled(user, "POST", "/api/estimates", id, Some(b),
                           Reply(201, estimates'[id]))
        /\ UNCHANGED <<onDelete, projects, ApiRest>>

(* GET /api/estimates/:id                                                  *)
GetEstimate ==
    \E user \in Users, id \in EstimateIds :
        /\ Handled(user, "GET", "/api/estimates/:id", id, None,
                   IF EstimateGuard(user, id) # 0
                   THEN Reply(EstimateGuard(user, id), None)
                   ELSE Reply(200, getEstimate(id)))
        /\ UNCHANGED <<onDelete, projects, estimates, issued, ApiRest>>

(* PUT /api/estimates/:id                                                  *)
PutEstimate ==
    \E user \in Users, id \in EstimateIds, b \in UpdateBodies :
        /\ IF EstimateGuard(user, id) # 0
           THEN /\ UNCHANGED estimates
                /\ Handled(user, "PUT", "/api/estimates/:id", id, Some(b),
                           Reply(EstimateGuard(user, id), None))
           ELSE /\ estimates' = [estimates EXCEPT ![id] =
                                    Some(safeUpdates(estimates[id][1], b))]
                /\ Handled(user, "PUT", "/api/estimates/:id", id, Some(b),
                           Reply(200, estimates'[id]))
        /\ UNCHANGED <<onDelete, projects, issued, ApiRest>>

(* DELETE /api/estimates/:id                                               *)
DeleteEstimate ==
    \E user \in Users, id \in EstimateIds :
        /\ IF EstimateGuard(user, id) # 0
           THEN /\ UNCHANGED estimates
                /\ Handled(user, "DELETE", "/api/estimates/:id", id, None,
                           Reply(EstimateGuard(user, id), None))
           ELSE /\ estimates' = [estimates EXCEPT ![id] = None]
                /\ Handled(user, "DELETE", "/api/estimates/:id", id, None,
                           Reply(204, None))
        /\ UNCHANGED <<onDelete, projects, issued, ApiRest>>

ApiNext ==
    \/ PostProject \/ GetProject \/ PutProject \/ DeleteProject
    \/ GetProjectEstimates \/ PostEstimate
    \/ GetEstimate \/ PutEstimate \/ DeleteEstimate

ApiSpec == ApiInit /\ [][ApiNext]_vars

-----------------------------------------------------------------------------
(* The in-memory DatabaseStorage (src/server/storage.ts, lines 284-383).   *)
(*                                                                         *)
(* Ids are `proj-${Date.now()}` and `est-${Date.now()}`: the key of a row  *)
(* is the millisecond of its creation.  storedProjects[t] is the entry of  *)
(* this.projects under proj-t, storedEstimates[t] that of this.estimates   *)
(* under est-t (None: no entry); now is Date.now().  createdBy[t] records  *)
(* the userId of the createEstimate call that stored est-t; caller and     *)
(* outcome are the userId and the end of the last call.                    *)

Clock == {0, 1}

(* Partial<InsertProject> and Partial<InsertEstimate>: the properties an   *)
(* update may carry.                                                       *)
ProjectUpdates == [userId : {None} \cup {Some(u) : u \in Users}]

EstimateUpdates == [projectId : {None} \cup {Some(t) : t \in Clock}]

(* getProject(userId, id)                                                  *)
memoryGetProject(userId, id) ==
    IF storedProjects[id] # None /\ storedProjects[id][1].userId = userId
    THEN storedProjects[id]
    ELSE None

(* getEstimate(userId, id)                                                 *)
memoryGetEstimate(userId, id) ==
    IF /\ storedEstimates[id] # None
       /\ memoryGetProject(userId, storedEstimates[id][1].projectId) # None
    THEN storedEstimates[id]
    ELSE None

(* getProjectEstimates(userId, projectId): the ids of the list; it throws  *)
(* when getProject finds nothing.                                          *)
memoryGetProjectEstimates(userId, projectId) ==
    IF memoryGetProject(userId, projectId) = None THEN {}
    ELSE {e \in Clock : storedEstimates[e] # None
                          /\ storedEstimates[e][1].projectId = projectId}

(* { ...row, ...updates }                                                  *)
Spread(row, updates) ==
    [k \in DOMAIN row |->
        IF k \in DOMAIN updates /\ updates[k] # None THEN updates[k][1]
        ELSE row[k]]

StorageInit ==
    /\ storedProjects = [t \in Clock |-> None]
    /\ storedEstimates = [t \in Clock |-> None]
    /\ createdBy = [t \in Clock |-> None]
    /\ now = 0
    /\ caller = ""
    /\ outcome = ""
    /\ EngineIdle /\ PreviewIdle /\ ValidatorIdle /\ PresetIdle /\ RouteIdle
    /\ ConcurrentIdle /\ FormatIdle /\ FormIdle /\ ApiIdle /\ AuthIdle

Ended(userId, how) == caller' = userId /\ outcome' = how

(* A millisecond passes.                                                   *)
Tick ==
    /\ now + 1 \in Clock
    /\ now' = now + 1
    /\ UNCHANGED <<storedProjects, storedEstimates, createdBy, caller, outcome,
                   StorageRest>>

(* createProject(project)                                                  *)
createProject ==
    \E userId \in Users :
        /\ storedProjects' = [storedProjects EXCEPT ![now] =
                                 Some([userId |-> userId])]
        /\ Ended(userId, "createProject returned")
        /\ UNCHANGED <<storedEstimates, createdBy, now, StorageRest>>

(* updateProject(userId, id, updates)                                      *)
updateProject ==
    \E userId \in Users, id \in Clock, updates \in ProjectUpdates :
        /\ IF memoryGetProject(userId, id) = None
           THEN /\ Ended(userId, "updateProject threw")
                /\ UNCHANGED storedProjects
           ELSE /\ storedProjects' = [storedProjects EXCEPT ![id] =
                       Some(Spread(memoryGetProject(userId, id)[1], updates))]
                /\ Ended(userId, "updateProject returned")
        /\ UNCHANGED <<storedEstimates, createdBy, now, StorageRest>>

(* deleteProject(userId, id)                                               *)
deleteProject ==
    \E userId \in Users, id \in Clock :
        /\ IF memoryGetProject(userId, id) = None
           THEN UNCHANGED <<storedProjects, storedEstimates>>
           ELSE /\ storedProjects' = [storedProjects EXCEPT ![id] = None]
                /\ storedEstimates' =
                      [e \in Clock |->
                          IF /\ storedEstimates[e] # None
                             /\ storedEstimates[e][1].projectId = id
                          THEN None ELSE storedEstimates[e]]
        /\ Ended(userId, "deleteProject returned")
        /\ UNCHANGED <<createdBy, now, StorageRest>>

(* createEstimate(userId, estimate)                                        *)
createEstimate ==
    \E userId \in Users, projectId \in Clock :
        /\ IF memoryGetProject(userId, projectId) = None
           THEN /\ Ended(userId, "createEstimate threw")
                /\ UNCHANGED <<storedEstimates, createdBy>>
           ELSE /\ storedEstimates' = [storedEstimates EXCEPT ![now] =
                                          Some([projectId |-> projectId])]
                /\ createdBy' = [createdBy EXCEPT ![now] = Some(userId)]
                /\ Ended(userId, "createEstimate returned")
        /\ UNCHANGED <<storedProjects, now, StorageRest>>

(* updateEstimate(userId, id, updates)                                     *)
updateEstimate ==
    \E userId \in Users, id \in Clock, updates \in EstimateUpdates :
        /\ IF memoryGetEstimate(userId, id) = None
           THEN /\ Ended(userId, "updateEstimate threw")
                /\ UNCHANGED storedEstimates
           ELSE /\ storedEstimates' = [storedEstimates EXCEPT ![id] =
                       Some(Spread(memoryGetEstimate(userId, id)[1], updates))]
                /\ Ended(userId, "updateEstimate returned")
        /\ UNCHANGED <<storedProjects, createdBy, now, StorageRest>>

(* deleteEstimate(userId, id)                                              *)
deleteEstimate ==
    \E userId \in Users, id \in Clock :
        /\ IF memoryGetEstimate(userId, id) = None
           THEN UNCHANGED storedEstimates
           ELSE storedEstimates' = [storedEstimates EXCEPT ![id] = None]
        /\ Ended(userId, "deleteEstimate returned")
        /\ UNCHANGED <<storedProjects, createdBy, now, StorageRest>>

StorageNext ==
    \/ Tick
    \/ createProject \/ updateProject \/ deleteProject
    \/ createEstimate \/ updateEstimate \/ deleteEstimate

StorageSpec == StorageInit /\ [][StorageNext]_vars

-----------------------------------------------------------------------------
(* The login routes (src/unnamed/part_007, lines 17-79) over the users map *)
(* of the in-memory storage (src/server/storage.ts, lines 289-298).        *)
(*                                                                         *)
(* users[id] is the entry of this.users (None: no entry), authNow is       *)
(* Date.now(), sentTokens the tokens POST /api/auth/send-magic-link has    *)
(* generated, authRequest the request last handled and authResponse its    *)
(* answer.                                                                 *)

Emails == {"ann@example.com", "bob@example.com"}

(* 'demo-user', `user-${Date.now()}` and                                   *)
(* `magic-${Date.now()}-${base64(email)}`                                  *)
DemoUserId == <<"demo-user">>

SignupId(t) == <<"user", t>>

MagicToken(t, email) == <<"magic", t, email>>

UserIds ==
    {DemoUserId} \cup {SignupId(t) : t \in Clock}
    \cup {MagicToken(t, e) : t \in Clock, e \in Emails}

(* The values a client may present as ?token=.                             *)
TokenValues == UserIds \cup {<<"guess">>}

(* storage.getUser(id)                                                     *)
getUser(id) == IF id \in UserIds THEN users[id] ELSE None

(* storage.upsertUser(userData): this.users.set(userData.id, fullUser)     *)
upsertUser(id, email) == [users EXCEPT ![id] = Some([id |-> id, email |-> email])]

AuthInit ==
    /\ users = [id \in UserIds |-> None]
    /\ sentTokens = {}
    /\ authNow = 0
    /\ authRequest = None
    /\ authResponse = None
    /\ EngineIdle /\ PreviewIdle /\ ValidatorIdle /\ PresetIdle /\ RouteIdle
    /\ ConcurrentIdle /\ FormatIdle /\ FormIdle /\ ApiIdle /\ StorageIdle

Answered(path, arg, status, payload) ==
    /\ authRequest' = Some([path |-> path, arg |-> arg])
    /\ authResponse' = Some([status |-> status, body |-> payload])

AuthTick ==
    /\ authNow + 1 \in Clock
    /\ authNow' = authNow + 1
    /\ UNCHANGED <<users, sentTokens, authRequest, authResponse, AuthRest>>

(* POST /api/auth/login: any email and password; the user is 'demo-user'.  *)
Login ==
    \E email \in Emails :
        /\ users' = upsertUser(DemoUserId, email)
        /\ Answered("/api/auth/login", email, 200, users'[DemoUserId][1])
        /\ UNCHANGED <<sentTokens, authNow, AuthRest>>

(* POST /api/auth/signup                                                   *)
Signup ==
    \E email \in Emails :
        /\ users' = upsertUser(SignupId(authNow), email)
        /\ Answered("/api/auth/signup", email, 200, users'[SignupId(authNow)][1])
        /\ UNCHANGED <<sentTokens, authNow, AuthRest>>

(* POST /api/auth/send-magic-link: the token is stored as the id of a user *)
(* and goes out by mail (the server's log).                                *)
SendMagicLink ==
    \E email \in Emails :
        /\ users' = upsertUser(MagicToken(authNow, email), email)
        /\ sentTokens' = sentTokens \cup {MagicToken(authNow, email)}
        /\ Answered("/api/auth/send-magic-link", email, 200,
                    [message |-> "Magic link sent"])
        /\ UNCHANGED <<authNow, AuthRest>>

(* GET /api/auth/verify-magic-link?token=...                               *)
VerifyMagicLink ==
    \E token \in TokenValues :
        /\ IF getUser(token) = None
           THEN Answered("/api/auth/verify-magic-link", token, 400,
                         [message |-> "Invalid or expired magic link"])
           ELSE Answered("/api/auth/verify-magic-link", token, 200,
                         getUser(token)[1])
        /\ UNCHANGED <<users, sentTokens, authNow, AuthRest>>

AuthNext == AuthTick \/ Login \/ Signup \/ SendMagicLink \/ VerifyMagicLink

AuthSpec == AuthInit /\ [][AuthNext]_vars
-----------------------------------------------------------------------------
(* Vocabulary of the properties.                                           *)

Returned == pc = "returned"

Threw == pc = "threw"

(* The engine's preconditions as the data model states them: volume, the   *)
(* three parts and the three (effective) densities strictly positive.      *)
Positive(x) == x[1] > 0

EffectiveDensities(in) ==
    IF in.densities = None
    THEN [cement |-> Num(1440), sand |-> Num(1600), agg |-> Num(1750)]
    ELSE in.densities[1]

EffectiveDryFactor(in) ==
    IF in.dryFactor = None THEN Rat(154, 100) ELSE in.dryFactor[1]

EffectiveWastage(in) ==
    IF in.wastageFactor = None THEN Num(5) ELSE in.wastageFactor[1]

WellFormed(in) ==
    /\ Positive(in.volumeM3)
    /\ Positive(in.mixRatio.cement)
    /\ Positive(in.mixRatio.sand)
    /\ Positive(in.mixRatio.agg)
    /\ Positive(EffectiveDensities(in).cement)
    /\ Positive(EffectiveDensities(in).sand)
    /\ Positive(EffectiveDensities(in).agg)

Materials == {"cement", "sand", "agg"}

(* The field of the result that reports material m.                        *)
ResultOf(r, m) == IF m = "agg" THEN r.aggregate ELSE r[m]

(* The unrounded wastage-inclusive mass of material m.                     *)
MassOf(l, m) ==
    CASE m = "cement" -> l.cementMassWithWastage
      [] m = "sand" -> l.sandMassWithWastage
      [] m = "agg" -> l.aggMassWithWastage

RMul(a, b) == Rat(a[1] * b[1], a[2] * b[2])

(* (parts / (cement + sand + agg parts)) * (volumeM3 * dryFactor)          *)
(*     * density * (1 + wastageFactor / 100), in the engine's arithmetic.  *)
ExpectedMass(in, m) ==
    FMul(FMul(FMul(FDiv(Number(in.mixRatio[m]),
                        FAdd(FAdd(Number(in.mixRatio.cement),
                                  Number(in.mixRatio.sand)),
                             Number(in.mixRatio.agg))),
                   FMul(Number(in.volumeM3), Number(EffectiveDryFactor(in)))),
              Number(EffectiveDensities(in)[m])),
         FAdd(FromInt(1), FDiv(Number(EffectiveWastage(in)), FromInt(100))))

(* The same product over the reals, as one fraction.                       *)
RealMass(in, m) ==
    LET total == RAdd(in.mixRatio.agg, RAdd(in.mixRatio.sand, in.mixRatio.cement))
        share == RMul(in.mixRatio[m], <<total[2], total[1]>>)
    IN  RMul(RMul(RMul(share, in.volumeM3),
                  RMul(EffectiveDryFactor(in), EffectiveDensities(in)[m])),
             RMul(RAdd(Num(100), EffectiveWastage(in)), Rat(1, 100)))

Micro == Rat(1, 1000000)

Cent == Rat(1, 100)

C1_Input ==
    [volumeM3      |-> Num(100),
     mixRatio      |-> [cement |-> Num(1), sand |-> Num(2), agg |-> Num(4)],
     densities     |-> Some([cement |-> Num(1440), sand |-> Num(1600),
                             agg |-> Num(1750)]),
     dryFactor     |-> Some(Rat(154, 100)),
     wastageFactor |-> Some(Num(5))]

(* C1: on the end-to-end example input (100 m3, 1:2:4, densities           *)
(* 1440/1600/1750, dry factor 1.54, wastage 5) the engine returns volumes  *)
(* 22, 44, 88, cement 33264 kg in 666 bags and 33.264 t, sand 73920 kg and *)
(* 73.920 t, aggregate 161700 kg and 161.700 t, totals 154 m3, 268884 kg.  *)
C1_EndToEndExample ==
    (input = C1_Input /\ pc # "called") =>
        /\ Returned
        /\ result[1].cement.volume = Num(22)
        /\ result[1].sand.volume = Num(44)
        /\ result[1].aggregate.volume = Num(88)
        /\ result[1].cement.mass = Num(33264)
        /\ result[1].cement.bags = 666
        /\ result[1].cement.tonnes = Rat(33264, 1000)
        /\ result[1].sand.mass = Num(73920)
        /\ result[1].sand.tonnes = Rat(73920, 1000)
        /\ result[1].aggregate.mass = Num(161700)
        /\ result[1].aggregate.tonnes = Rat(161700, 1000)
        /\ result[1].totals.volume = Num(154)
        /\ result[1].totals.mass = Num(268884)

C1_Witness == input = C1_Input /\ Returned /\ result[1].cement.bags = 666

(* C2: for every input with volume <= 0, a mix-ratio part <= 0 or a        *)
(* density <= 0, the call ends with an Error thrown and no result object;  *)
(* a thrown call never carries a result.                                   *)
C2_InvalidInputThrows ==
    /\ (~WellFormed(input) /\ pc # "called") =>
            (Threw /\ result = None /\ error # "")
    /\ Threw => result = None

C2_Witness ==
    /\ Threw
    /\ result = None
    /\ Positive(input.volumeM3)
    /\ \A m \in Materials : Positive(input.mixRatio[m])
    /\ input.densities # None
    /\ input.densities[1].agg = Num(0)

(* C3: for every accepted input and each material, the mass the engine     *)
(* computes is parts / (sum of parts) * volume * dryFactor * density *     *)
(* (1 + wastage / 100) in its own arithmetic, with one wastage multiplier  *)
(* for all three; the reported mass is that value rounded to 2 decimals    *)
(* (within a cent of the product over the reals) and the reported tonnes   *)
(* is that value / 1000 rounded to 3 decimals.                             *)
C3_MassFormula ==
    Returned =>
        \A m \in Materials :
            \A mass \in {ExpectedMass(input, m)} :
                /\ MassOf(locals[1], m) = mass
                /\ ResultOf(result[1], m).mass = ToFixed(mass, 2)
                /\ ResultOf(result[1], m).tonnes =
                       ToFixed(FDiv(mass, FromInt(1000)), 3)
                /\ RLt(RAbs(RSub(ResultOf(result[1], m).mass,
                                 RealMass(input, m))), Cent)

C3_Witness ==
    /\ Returned
    /\ input.wastageFactor = Some(Rat(15, 2))
    /\ input.dryFactor = Some(Num(1))
    /\ input.densities = Some([cement |-> Num(2381), sand |-> Num(1000),
                               agg |-> Num(1000)])
    /\ result[1].sand.mass # result[1].cement.mass
    /\ result[1].aggregate.mass # ToFixed(locals[1].aggMass, 2)

(* The same input with wastageFactor raised by 2.5.                        *)
MoreWastage(in) ==
    [in EXCEPT !.wastageFactor = Some(RAdd(EffectiveWastage(in), Rat(5, 2)))]

Volumes3(r) == <<r.cement.volume, r.sand.volume, r.aggregate.volume>>

(* C4: for every accepted input totals.volume is volumeM3 * dryFactor      *)
(* rounded to 6 decimals, and the input that differs only in a larger      *)
(* wastageFactor has the same totals.volume and the same three material    *)
(* volumes.                                                                *)
C4_VolumeIgnoresWastage ==
    Returned =>
        /\ result[1].totals.volume =
               ToFixed(FMul(Number(input.volumeM3),
                            Number(EffectiveDryFactor(input))), 6)
        /\ \A other \in {Estimate(MoreWastage(input))} :
               /\ other.totals.volume = result[1].totals.volume
               /\ Volumes3(other) = Volumes3(result[1])

C4_Witness ==
    /\ Returned
    /\ input.wastageFactor = Some(Num(5))
    /\ Positive(EffectiveDryFactor(input))
    /\ result[1].totals.mass # Estimate(MoreWastage(input)).totals.mass
    /\ result[1].totals.volume # input.volumeM3

(* cementVolume + sandVolume + aggVolume, in the engine's arithmetic.      *)
VolumeSum(l) == FAdd(FAdd(l.cementVolume, l.sandVolume), l.aggVolume)

(* |x - y| <= |y| / 2^50: equal up to the rounding of a few operations.    *)
Near(x, y) ==
    \A diff \in {FAdd(x, FNeg(y))} :
        \/ diff[1] = 0
        \/ y[1] # 0 /\ MagCmp(diff, <<1, y[2] - 50, y[3]>>) <= 0

(* The distance between the sum of the reported volumes and totals.volume. *)
VolumeGap(r) ==
    RAbs(RSub(RAdd(RAdd(r.cement.volume, r.sand.volume), r.aggregate.volume),
              r.totals.volume))

(* C5 as stated: for every accepted input the unrounded cement, sand and   *)
(* aggregate volumes sum exactly to volumeM3 * dryFactor, and the reported *)
(* 6-decimal volumes sum to totals.volume within 1e-6.                     *)
C5_PartitionExact ==
    Returned =>
        /\ VolumeSum(locals[1]) = locals[1].adjustedVolume
        /\ RLe(VolumeGap(result[1]), Micro)

(* C5: for every accepted input the unrounded cement, sand and aggregate   *)
(* volumes sum to volumeM3 * dryFactor up to floating-point rounding (a    *)
(* relative difference of at most 2^-50), and the reported 6-decimal       *)
(* volumes sum to totals.volume within 2e-6.                               *)
C5_Partition ==
    Returned =>
        /\ locals[1].adjustedVolume =
               FMul(Number(input.volumeM3), Number(EffectiveDryFactor(input)))
        /\ Near(VolumeSum(locals[1]), locals[1].adjustedVolume)
        /\ RLe(VolumeGap(result[1]), Rat(2, 1000000))

(* A result whose reported volumes miss totals.volume by 2e-6.             *)
C5_Witness == Returned /\ VolumeGap(result[1]) = Rat(2, 1000000)

(* A result whose unrounded volumes do not add up to the adjusted volume.  *)
C5_WitnessInexactSum ==
    /\ Returned
    /\ VolumeSum(locals[1]) # locals[1].adjustedVolume
    /\ Near(VolumeSum(locals[1]), locals[1].adjustedVolume)

(* The two parts of C5 as stated, each on its own.                         *)
C5_SumExact == Returned => VolumeSum(locals[1]) = locals[1].adjustedVolume

C5_GapWithinMicro == Returned => RLe(VolumeGap(result[1]), Micro)

MassGap(r) ==
    RAbs(RSub(r.totals.mass,
              RAdd(RAdd(r.cement.mass, r.sand.mass), r.aggregate.mass)))

(* C6 as stated: for every accepted input totals.mass differs from the     *)
(* sum of the three reported masses by at most 0.01.                       *)
C6_TotalMassWithinOneCent == Returned => RLe(MassGap(result[1]), Cent)

(* C6: for every accepted input totals.mass is the unrounded sum of the    *)
(* three wastage-inclusive masses rounded once to 2 decimals, and differs  *)
(* from the sum of the three reported masses by at most 0.02.              *)
C6_TotalMassTolerance ==
    Returned =>
        /\ result[1].totals.mass =
               ToFixed(FAdd(FAdd(MassOf(locals[1], "cement"),
                                 MassOf(locals[1], "sand")),
                            MassOf(locals[1], "agg")), 2)
        /\ RLe(MassGap(result[1]), Rat(2, 100))

(* A result where the independently rounded masses miss the rounded total  *)
(* by 0.02.                                                                *)
C6_Witness == Returned /\ MassGap(result[1]) = Rat(2, 100)

(* The numbers of bags next to mass / 50, from the mass rounded to a whole *)
(* number of kg.                                                           *)
NearbyBagCounts(mass) ==
    LET k == ToFixedUnits(mass, 0) \div BAG_KG IN {k - 1, k, k + 1}

(* C7: cement.bags is the ceiling of the unrounded wastage-inclusive       *)
(* cement mass divided by 50; a mass of exactly 50 * k gives k bags and a  *)
(* mass of 50 * k + 0.001 gives k + 1; sand and aggregate have no bags     *)
(* field.                                                                  *)
C7_BagsCeiling ==
    Returned =>
        \A mass \in {MassOf(locals[1], "cement")} :
            /\ result[1].cement.bags = Ceil(FDiv(mass, FromInt(50)))
            /\ \A k \in NearbyBagCounts(mass) :
                   /\ mass = FromInt(50 * k) => result[1].cement.bags = k
                   /\ mass = Number(Rat(50000 * k + 1, 1000)) =>
                          result[1].cement.bags = k + 1
            /\ DOMAIN result[1].sand = {"volume", "mass", "tonnes"}
            /\ DOMAIN result[1].aggregate = {"volume", "mass", "tonnes"}

(* The boundary case: 50.001 kg of cement takes 2 bags.                    *)
C7_Witness ==
    /\ Returned
    /\ MassOf(locals[1], "cement") = Number(Rat(50001, 1000))
    /\ result[1].cement.bags = 2

(* The other side of the boundary: a whole number of bags, more than one.  *)
C7_WitnessExact ==
    /\ Returned
    /\ result[1].cement.bags > 1
    /\ MassOf(locals[1], "cement") = FromInt(50 * result[1].cement.bags)

(* bags * 10 + sand mass / 1000 * 50 + aggregate mass / 1000 * 35 on the   *)
(* unrounded masses, in the engine's arithmetic.                           *)
ExpectedCost(l, bags) ==
    FAdd(FAdd(FMul(FromInt(bags), FromInt(10)),
              FMul(FDiv(MassOf(l, "sand"), FromInt(1000)), FromInt(50))),
         FMul(FDiv(MassOf(l, "agg"), FromInt(1000)), FromInt(35)))

(* The same sum on the reported (rounded) tonnes.                          *)
CostOfReported(r) ==
    FAdd(FAdd(FMul(FromInt(r.cement.bags), FromInt(10)),
              FMul(Number(r.sand.tonnes), FromInt(50))),
         FMul(Number(r.aggregate.tonnes), FromInt(35)))

(* C8: totals.estimatedCost is bags * 10 + unrounded sand tonnes * 50 +    *)
(* unrounded aggregate tonnes * 35, rounded once to 2 decimals; the        *)
(* rounded output fields are not fed back into the cost.                   *)
C8_CostFromUnrounded ==
    Returned =>
        result[1].totals.estimatedCost =
            ToFixed(ExpectedCost(locals[1], result[1].cement.bags), 2)

(* A result whose cost differs from the cost of its own rounded tonnes.    *)
C8_Witness ==
    /\ Returned
    /\ result[1].totals.estimatedCost # ToFixed(CostOfReported(result[1]), 2)

AllDefaultsOmitted(in) ==
    in.densities = None /\ in.dryFactor = None /\ in.wastageFactor = None

ExplicitDefaults(in) ==
    [in EXCEPT !.densities = Some([cement |-> Num(1440), sand |-> Num(1600),
                                   agg |-> Num(1750)]),
               !.dryFactor = Some(Rat(154, 100)),
               !.wastageFactor = Some(Num(5))]

Figures(r) == [cement |-> r.cement, sand |-> r.sand,
               aggregate |-> r.aggregate, totals |-> r.totals]

(* C9: a call with dryFactor, wastageFactor and densities omitted ends as  *)
(* the call with 1.54, 5 and {1440, 1600, 1750} supplied (same cement,     *)
(* sand, aggregate and totals, or the same Error); a supplied wastage of 0 *)
(* is used as 0: the multiplier is 1 and the masses carry no wastage.      *)
C9_DefaultsAndZeroWastage ==
    /\ (AllDefaultsOmitted(input) /\ pc # "called") =>
           \A l \in {Destructured(ExplicitDefaults(input))} :
               IF ThrownError(l) # ""
               THEN Threw /\ error = ThrownError(l)
               ELSE /\ Returned
                    /\ Figures(result[1]) =
                           Figures(Estimate(ExplicitDefaults(input)))
    /\ (Returned /\ input.wastageFactor = Some(Num(0))) =>
           /\ locals[1].wastageMultiplier = FromInt(1)
           /\ result[1].cement.mass = ToFixed(locals[1].cementMass, 2)
           /\ result[1].sand.mass = ToFixed(locals[1].sandMass, 2)
           /\ result[1].aggregate.mass = ToFixed(locals[1].aggMass, 2)
           /\ result[1].cement.bags =
                  Ceil(FDiv(locals[1].cementMass, FromInt(50)))

C9_Witness ==
    /\ Returned
    /\ input.wastageFactor = Some(Num(0))
    /\ AllDefaultsOmitted([input EXCEPT !.wastageFactor = None])
    /\ result[1].totals.mass #
           Estimate([input EXCEPT !.wastageFactor = None]).totals.mass

(* C10 as stated: of two accepted inputs that differ only in wastageFactor *)
(* the one with the larger factor has a strictly greater mass and strictly *)
(* greater tonnes for each material and a bags count that is not smaller.  *)
C10_StrictWastageMonotonicity ==
    Returned =>
        \A other \in {Estimate(MoreWastage(input))} :
            /\ \A m \in Materials :
                   /\ RLt(ResultOf(result[1], m).mass, ResultOf(other, m).mass)
                   /\ RLt(ResultOf(result[1], m).tonnes,
                          ResultOf(other, m).tonnes)
            /\ result[1].cement.bags <= other.cement.bags

(* C10: of two accepted inputs with dryFactor >= 0 that differ only in     *)
(* wastageFactor, the one with the larger factor has, for each material, a *)
(* reported mass and reported tonnes that are not smaller (they can be     *)
(* equal after rounding), and a bags count that is not smaller.            *)
C10_WastageMonotonicity ==
    (Returned /\ EffectiveDryFactor(input)[1] >= 0) =>
        \A other \in {Estimate(MoreWastage(input))} :
            /\ \A m \in Materials :
                   /\ RLe(ResultOf(result[1], m).mass, ResultOf(other, m).mass)
                   /\ RLe(ResultOf(result[1], m).tonnes,
                          ResultOf(other, m).tonnes)
            /\ result[1].cement.bags <= other.cement.bags

(* More wastage that shows in every reported mass, yet not in the cement   *)
(* tonnes.                                                                 *)
C10_Witness ==
    /\ Returned
    /\ Positive(EffectiveDryFactor(input))
    /\ \A other \in {Estimate(MoreWastage(input))} :
           /\ \A m \in Materials :
                  RLt(ResultOf(result[1], m).mass, ResultOf(other, m).mass)
           /\ result[1].cement.tonnes = other.cement.tonnes


Twice(x) == IF x = Zero THEN Zero ELSE <<x[1], x[2] + 1, x[3]>>

Doubled(in) == [in EXCEPT !.volumeM3 = RAdd(@, @)]

Scaled(in, k) ==
    [in EXCEPT !.mixRatio = [m \in Materials |-> RMul(@[m], k)]]

Unrounded ==
    {"adjustedVolume", "cementVolume", "sandVolume", "aggVolume",
     "cementMassWithWastage", "sandMassWithWastage", "aggMassWithWastage"}

(* C11: for every accepted input, the input that differs only in a         *)
(* doubled volumeM3 has exactly twice the adjusted volume, twice each      *)
(* unrounded material volume and twice each unrounded wastage-inclusive    *)
(* mass, and its bags count is 2 * bags or 2 * bags - 1.                   *)
C11_Scaling ==
    Returned =>
        \A other \in {Execute(Destructured(Doubled(input)), 1)} :
            /\ \A n \in Unrounded : other[n] = Twice(locals[1][n])
            /\ other.cementBags \in {2 * locals[1].cementBags,
                                     2 * locals[1].cementBags - 1}

(* A pour whose doubling needs one bag less than twice the bags.           *)
C11_Witness ==
    /\ Returned
    /\ locals[1].cementBags > 0
    /\ locals[1].cementVolume # Zero
    /\ Execute(Destructured(Doubled(input)), 1).cementBags =
           2 * locals[1].cementBags - 1

C11_WitnessEven ==
    /\ Returned
    /\ locals[1].cementBags > 0
    /\ Execute(Destructured(Doubled(input)), 1).cementBags =
           2 * locals[1].cementBags

SameValues(r, other) ==
    /\ other.cement = r.cement
    /\ other.sand = r.sand
    /\ other.aggregate = r.aggregate
    /\ other.totals = r.totals

WholeParts(in) == \A m \in Materials : in.mixRatio[m][2] = 1

(* C12 as stated: multiplying the three parts of an accepted input by 2,   *)
(* by 1/2 or by 10 leaves cement, sand, aggregate and totals unchanged.    *)
C12_OnlyProportionsMatter ==
    Returned =>
        \A k \in {Num(2), Rat(1, 2), Num(10)} :
            SameValues(result[1], Estimate(Scaled(input, k)))

(* C12: multiplying the three parts of an accepted input by a power of two *)
(* (2, 1/2), or by a whole number (3) when the parts are whole numbers,    *)
(* leaves cement, sand, aggregate and totals unchanged.                    *)
C12_ProportionsExactScaling ==
    Returned =>
        /\ \A k \in {Num(2), Rat(1, 2)} :
               SameValues(result[1], Estimate(Scaled(input, k)))
        /\ WholeParts(input) =>
               SameValues(result[1], Estimate(Scaled(input, Num(3))))

(* 1:2:4 and 3:6:12 give the same positive figures.                        *)
C12_Witness ==
    /\ Returned
    /\ input.mixRatio = getPresetMixRatios["C20/25"]
    /\ Positive(result[1].cement.mass)
    /\ SameValues(result[1], Estimate(Scaled(input, Num(3))))

(* 1:1:1.3 and 10:10:13 differ in a reported figure.                       *)
C12_WitnessDiffer ==
    /\ Returned
    /\ ~ SameValues(result[1], Estimate(Scaled(input, Num(10))))

Has(errors, msg) == \E i \in 1 .. Len(errors) : errors[i] = msg

Count(errors, msg) == Cardinality({i \in 1 .. Len(errors) : errors[i] = msg})

(* x <= 0, x < c over the decimal values of the object.                    *)
NonPositive(opt) == opt # None /\ opt[1][1] <= 0

ValidatorsReturned == validated # None /\ clientValidated # None

(* C13: in the lists of both validators, the positive-number error is      *)
(* present when volumeM3 is missing or <= 0, the small-volume warning is   *)
(* present whenever volumeM3 is present and < 0.01, and neither message is *)
(* present when volumeM3 >= 0.01.                                          *)
C13_VolumeRules ==
    ValidatorsReturned =>
        \A errors \in {validated[1], clientValidated[1]} :
            /\ (body.volumeM3 = None \/ NonPositive(body.volumeM3))
                   => Has(errors, VOLUME_ERROR)
            /\ (body.volumeM3 # None /\ RLt(body.volumeM3[1], Rat(1, 100)))
                   => Has(errors, VOLUME_WARNING)
            /\ (body.volumeM3 # None /\ RLe(Rat(1, 100), body.volumeM3[1]))
                   => (~ Has(errors, VOLUME_ERROR)
                         /\ ~ Has(errors, VOLUME_WARNING))

MixMessages == {MIX_RATIO_ERROR} \cup {RATIO_ERROR[m] : m \in Materials}

NotAboutMix(msg) == msg \notin MixMessages

(* C14: the server's validator reports a missing mixRatio once and nothing *)
(* about its parts; otherwise it reports each part that is missing or <= 0 *)
(* exactly once with its own message and no other part; and the messages   *)
(* about volume, densities, dryFactor and wastageFactor are those it       *)
(* returns for the same object with a valid mix ratio.  Every call returns *)
(* a list.                                                                 *)
C14_CollectsAll ==
    (validated # None) =>
        \A errors \in {validated[1]} :
            /\ (body.mixRatio = None) =>
                   /\ Count(errors, MIX_RATIO_ERROR) = 1
                   /\ \A m \in Materials : ~ Has(errors, RATIO_ERROR[m])
            /\ (body.mixRatio # None) =>
                   /\ ~ Has(errors, MIX_RATIO_ERROR)
                   /\ \A m \in Materials :
                          Count(errors, RATIO_ERROR[m]) =
                              IF body.mixRatio[1][m] = None
                                     \/ NonPositive(body.mixRatio[1][m])
                              THEN 1 ELSE 0
            /\ SelectSeq(errors, NotAboutMix) =
                   validateEstimationInput(
                       [body EXCEPT !.mixRatio = Some(GoodMixRatio)])

(* Two bad parts reported next to a volume, a density, a dry-factor and a  *)
(* wastage error.                                                          *)
C14_Witness ==
    /\ validated # None
    /\ body.mixRatio = Some(BadMixRatio)
    /\ Has(validated[1], RATIO_ERROR.cement)
    /\ Has(validated[1], RATIO_ERROR.sand)
    /\ Has(validated[1], VOLUME_ERROR)
    /\ Has(validated[1], DENSITY_ERROR.sand)
    /\ Has(validated[1], DRY_FACTOR_ERROR)
    /\ Has(validated[1], WASTAGE_ERROR)
    /\ Len(validated[1]) = 6

(* Three bad parts give three messages.                                    *)
C14_WitnessThree ==
    /\ validated # None
    /\ body.mixRatio # None
    /\ \A m \in Materials : Count(validated[1], RATIO_ERROR[m]) = 1

(* C15: when densities is supplied, both validators report, for each of    *)
(* its fields that is present and not > 0 (zero included), that field's    *)
(* density error.                                                          *)
C15_DensityErrors ==
    (ValidatorsReturned /\ body.densities # None) =>
        \A errors \in {validated[1], clientValidated[1]} :
            \A m \in Materials :
                NonPositive(body.densities[1][m])
                    => Has(errors, DENSITY_ERROR[m])

(* The server's validator alone: a density of 0 is not reported.           *)
C15_ServerDensityErrors ==
    (validated # None /\ body.densities # None) =>
        \A m \in Materials :
            NonPositive(body.densities[1][m])
                => Has(validated[1], DENSITY_ERROR[m])

InDryRange(opt) == opt[1][1] > 0 /\ RLe(opt[1], Num(3))

InWastageRange(opt) == opt[1][1] >= 0 /\ RLe(opt[1], Num(50))

(* C16: both validators report the dry-factor error exactly for a supplied *)
(* dryFactor outside (0, 3] and the wastage error exactly for a supplied   *)
(* wastageFactor outside [0, 50].                                          *)
C16_FactorRanges ==
    ValidatorsReturned =>
        \A errors \in {validated[1], clientValidated[1]} :
            /\ Has(errors, DRY_FACTOR_ERROR) <=>
                   (body.dryFactor # None /\ ~ InDryRange(body.dryFactor))
            /\ Has(errors, WASTAGE_ERROR) <=>
                   (body.wastageFactor # None
                      /\ ~ InWastageRange(body.wastageFactor))

(* The server's validator alone: a dryFactor of 0 is not reported.         *)
C16_ServerFactorRanges ==
    (validated # None) =>
        /\ Has(validated[1], DRY_FACTOR_ERROR) <=>
               (body.dryFactor # None /\ ~ InDryRange(body.dryFactor))
        /\ Has(validated[1], WASTAGE_ERROR) <=>
               (body.wastageFactor # None
                  /\ ~ InWastageRange(body.wastageFactor))

Ratio(c, s, a) == [cement |-> c, sand |-> s, agg |-> a]

(* C17: every call of getPresetMixRatios, on the server and in the client, *)
(* returns the mapping C20/25 -> 1:2:4, C25/30 -> 1:1.5:3,                 *)
(* C30/37 -> 1:1.2:2.4, C35/45 -> 1:1:2 with no other entry, whatever      *)
(* callers did before to the mappings earlier calls returned.              *)
C17_PresetsImmutable ==
    (returned # None) =>
        /\ DOMAIN returned[1].value = {"C20/25", "C25/30", "C30/37", "C35/45"}
        /\ returned[1].value["C20/25"] = Ratio(Num(1), Num(2), Num(4))
        /\ returned[1].value["C25/30"] = Ratio(Num(1), Rat(3, 2), Num(3))
        /\ returned[1].value["C30/37"] = Ratio(Num(1), Rat(6, 5), Rat(12, 5))
        /\ returned[1].value["C35/45"] = Ratio(Num(1), Num(1), Num(2))

(* A call made after the mapping of the first call lost an entry and had a *)
(* part overwritten.                                                       *)
C17_Witness ==
    /\ returned # None
    /\ returned[1].ref > 1
    /\ mutations = 2
    /\ "C20/25" \notin DOMAIN heap[1]
    /\ heap[1]["C25/30"].sand = Num(9)
    /\ returned[1].value["C20/25"] = Ratio(Num(1), Num(2), Num(4))
    /\ heap[returned[1].ref] = returned[1].value

(* C20: once the client's preview and the server's engine have both run on *)
(* the same input, either both threw or both returned, and the two results *)
(* are equal field by field.                                               *)
C20_ClientServerEquivalent ==
    (pc # "called" /\ clientPc # "called") =>
        \/ pc = "threw" /\ clientPc = "threw"
        \/ pc = "returned" /\ clientPc = "returned" /\ clientResult = result

(* Where the server returns, the preview returns the same result.          *)
C20_EqualWhereServerReturns ==
    (pc = "returned" /\ clientPc # "called") =>
        clientPc = "returned" /\ clientResult = result

RouteDone == handler = "done"

Prefix(s, t) == Len(s) <= Len(t) /\ s = SubSeq(t, 1, Len(s))

HandlerOrder ==
    <<"validateEstimationInput", "estimationInputSchema.parse",
      "estimateMaterials">>

Called(f) == \E i \in 1 .. Len(calls) : calls[i] = f

(* C18: the handler calls the validator first and the engine only after    *)
(* it; when the validator returns a non-empty list the handler answers     *)
(* with status 400 and the whole list, and never calls estimateMaterials.  *)
C18_ValidatorBeforeEngine ==
    /\ Prefix(calls, HandlerOrder)
    /\ (validationErrors # None /\ validationErrors[1] # <<>>) =>
           /\ ~ Called("estimateMaterials")
           /\ RouteDone =>
                  /\ response[1].status = 400
                  /\ response[1].errors = validateEstimationInput(request)

(* A request with several errors, answered 400 with all of them.           *)
C18_Witness ==
    /\ RouteDone
    /\ Len(validationErrors[1]) >= 3
    /\ response[1].status = 400
    /\ Len(response[1].errors) >= 3
    /\ calls = <<"validateEstimationInput">>

(* The engine was called, after the validator returned an empty list.      *)
C18_WitnessEngine ==
    /\ Called("estimateMaterials")
    /\ validationErrors = Some(<<>>)
    /\ response[1].status = 200

(* A value of the request that breaks an invariant of EstimationInput.     *)
AnyNonPositive(obj) ==
    \E m \in {"cement", "sand", "agg", "aggregate"} : NonPositive(obj[m])

ViolatesInvariant(b) ==
    \/ b.volumeM3 = None \/ NonPositive(b.volumeM3)
    \/ b.mixRatio = None
    \/ b.mixRatio # None /\
          (\/ AnyNonPositive(b.mixRatio[1])
           \/ b.mixRatio[1].cement = None \/ b.mixRatio[1].sand = None
           \/ (b.mixRatio[1].agg = None /\ b.mixRatio[1].aggregate = None))
    \/ b.densities # None /\ AnyNonPositive(b.densities[1])
    \/ b.dryFactor # None /\ ~ InDryRange(b.dryFactor)
    \/ b.wastageFactor # None /\ ~ InWastageRange(b.wastageFactor)

(* C19: a request whose body breaks an invariant of EstimationInput is     *)
(* answered with a 4xx status, never with a 5xx status.                    *)
C19_ViolationsAre4xx ==
    (RouteDone /\ ViolatesInvariant(request)) =>
        response[1].status \in 400 .. 499

(* A violation the validator reports: status 400.                          *)
C19_WitnessRejected ==
    /\ RouteDone
    /\ ViolatesInvariant(request)
    /\ response[1].status = 400

(* A dryFactor of 0 in a body that is valid otherwise, under the field     *)
(* names of the deployed schema: the validator lets it through, the schema *)
(* parse throws, the handler answers 500.                                  *)
C19_Status500 ==
    /\ RouteDone
    /\ ViolatesInvariant(request)
    /\ response[1].status = 500
    /\ request.dryFactor = Some(Num(0))
    /\ request.densities # None
    /\ request.mixRatio[1].agg # None
    /\ revision.file = "part_007"

-----------------------------------------------------------------------------
(* C21  Every request body to POST /api/v1/estimate that names the         *)
(*      aggregate part as the route schema does, with values satisfying    *)
(*      the invariants of the data model, is answered with status 200 and  *)
(*      the figures the engine computes for those values.                  *)

(* A mix ratio or densities object with its three parts under the names    *)
(* of the schema, all positive.                                            *)
SchemaNamedPositive(rev, obj) ==
    \A m \in {"cement", "sand", SchemaAgg(rev)} : IsPositive(obj[m])

SatisfiesDataModel(rev, b) ==
    /\ b.volumeM3 # None /\ ~ Below(b.volumeM3, Rat(1, 100))
    /\ b.mixRatio # None /\ SchemaNamedPositive(rev, b.mixRatio[1])
    /\ b.densities # None => SchemaNamedPositive(rev, b.densities[1])
    /\ b.dryFactor # None =>
          (IsPositive(b.dryFactor) /\ ~ Above(b.dryFactor, Num(3)))
    /\ b.wastageFactor # None =>
          (~ Below(b.wastageFactor, Num(0)) /\ ~ Above(b.wastageFactor, Num(50)))

(* The parts of an object of the request as the engine names them.         *)
EngineNamed(rev, obj) ==
    [cement |-> obj.cement[1], sand |-> obj.sand[1],
     agg |-> obj[SchemaAgg(rev)][1]]

(* The values of the request as an EstimationInput.                        *)
ValuesOf(rev, b) ==
    [volumeM3      |-> b.volumeM3[1],
     mixRatio      |-> EngineNamed(rev, b.mixRatio[1]),
     densities     |-> IF b.densities = None THEN None
                       ELSE Some(EngineNamed(rev, b.densities[1])),
     dryFactor     |-> b.dryFactor,
     wastageFactor |-> b.wastageFactor]

SameFigures(r1, r2) ==
    \A k \in {"cement", "sand", "aggregate", "totals"} : r1[k] = r2[k]

C21_SchemaNamesServed ==
    (handler = "done" /\ SatisfiesDataModel(revision, request)) =>
        /\ response[1].status = 200
        /\ SameFigures(response[1].results, Estimate(ValuesOf(revision, request)))

(* The requests of that kind that are served as claimed.                   *)
C21_Served ==
    /\ handler = "done" /\ SatisfiesDataModel(revision, request)
    /\ response[1].status = 200
    /\ SameFigures(response[1].results, Estimate(ValuesOf(revision, request)))

-----------------------------------------------------------------------------
(* C22  For every accepted input, result.parameters is the input exactly   *)
(*      as passed (omitted optional fields stay omitted, no defaults       *)
(*      filled in, no rounding), and estimateMaterials leaves the input    *)
(*      object as it was.                                                  *)
C22_ParametersEcho ==
    [][pc' = "returned" =>
          (input' = input /\ result'[1].parameters = input)]_vars

(* A call that returned for an input without the optional fields and with  *)
(* a volume that is not a multiple of 0.01.                                *)
C22_Witness ==
    /\ pc = "returned"
    /\ input.densities = None /\ input.dryFactor = None
    /\ input.wastageFactor = None
    /\ input.volumeM3 = Rat(975, 1000000)
    /\ result[1].parameters = input

-----------------------------------------------------------------------------
(* C23  The engine shares no mutable state between calls: under any        *)
(*      interleaving of calls to estimateMaterials, validateEstimationInput *)
(*      and getPresetMixRatios by concurrent callers, DEFAULT_DENSITIES,   *)
(*      DEFAULT_MATERIAL_COSTS and the preset table stay as they are and   *)
(*      each call returns what it returns when run alone on its argument.  *)
C23_CallsIndependent ==
    /\ defaults = ModuleConstants
    /\ \A c \in Callers :
          callers[c].at = "returned" =>
              callers[c].ret[1] =
                  Outcome(ModuleConstants, callers[c].fn, callers[c].arg)

(* One caller's call with densities of its own has returned while the      *)
(* other caller holds the result of a call that relied on the defaults.    *)
C23_Witness ==
    \E c, d \in Callers :
        /\ c # d
        /\ callers[c].at = "returned" /\ callers[d].at = "returned"
        /\ callers[c].fn = "estimateMaterials" /\ callers[d].fn = "estimateMaterials"
        /\ callers[c].arg[1].densities # None
        /\ callers[d].arg[1].densities = None
        /\ "value" \in DOMAIN callers[d].ret[1]

-----------------------------------------------------------------------------
(* C24  formatEstimationResults only reformats: the volumes, masses, bags, *)
(*      tonnes, totals and parameters it shows are the values of the       *)
(*      result; a default (1.54, 5) is shown only for an omitted           *)
(*      parameter, so wastageFactor 0 is displayed as 0%.                  *)

ShownFigures(f, r) ==
    /\ \A m \in {"cement", "sand", "aggregate"} :
          /\ f.materials[m].volume = r[m].volume
          /\ f.materials[m].mass = r[m].mass
    /\ f.materials.cement.units = r.cement.bags
    /\ f.materials.cement.tonnes = r.cement.tonnes
    /\ f.materials.sand.units = r.sand.tonnes
    /\ f.materials.aggregate.units = r.aggregate.tonnes
    /\ f.totals.volume = r.totals.volume
    /\ f.totals.mass = r.totals.mass
    /\ f.totals.cost = r.totals.estimatedCost

ShownParameters(f, p) ==
    /\ f.parameters.mixRatio = <<p.mixRatio.cement, p.mixRatio.sand, p.mixRatio.agg>>
    /\ f.parameters.dryFactor = Default(p.dryFactor, Rat(154, 100))
    /\ f.parameters.wastageFactor = Default(p.wastageFactor, Num(5))

C24_OnlyReformats ==
    formatted # None =>
        /\ ShownFigures(formatted[1], result[1])
        /\ ShownParameters(formatted[1], result[1].parameters)

(* The figures alone are shown as they are.                                *)
C24_FiguresShown ==
    formatted # None => ShownFigures(formatted[1], result[1])

(* A result computed without wastage is displayed with the default 5.      *)
C24_ZeroShownAsDefault ==
    /\ formatted # None
    /\ input.wastageFactor = Some(Num(0))
    /\ formatted[1].parameters.wastageFactor = Num(5)

-----------------------------------------------------------------------------
(* C25  Validator and engine agree: every input for which the server's     *)
(*      validateEstimationInput returns an empty list makes the server's   *)
(*      estimateMaterials return without raising, with every volume, mass, *)
(*      tonnes, bags and totals field a defined, finite, strictly positive *)
(*      number.                                                            *)

(* The validated object as estimateMaterials reads it.                     *)
BodyAsInput(b) ==
    [volumeM3      |-> Read(b.volumeM3),
     mixRatio      |-> [m \in {"cement", "sand", "agg"} |-> Read(b.mixRatio[1][m])],
     densities     |-> IF b.densities = None THEN None
                       ELSE Some([m \in {"cement", "sand", "agg"} |->
                                     Read(b.densities[1][m])]),
     dryFactor     |-> b.dryFactor,
     wastageFactor |-> b.wastageFactor]

StrictlyPositive(x) == x # Undefined /\ x[1] > 0

PositiveFigures(r) ==
    /\ \A m \in {"cement", "sand", "aggregate"} :
          /\ StrictlyPositive(r[m].volume)
          /\ StrictlyPositive(r[m].mass)
          /\ StrictlyPositive(r[m].tonnes)
    /\ r.cement.bags # NotANumber /\ r.cement.bags > 0
    /\ StrictlyPositive(r.totals.volume)
    /\ StrictlyPositive(r.totals.mass)
    /\ StrictlyPositive(r.totals.estimatedCost)

EngineServes(in) ==
    /\ ThrownError(Destructured(in)) = ""
    /\ PositiveFigures(Estimate(in))

C25_ValidatorEngineAgree ==
    validated = Some(<<>>) => EngineServes(BodyAsInput(body))

(* Validated inputs the engine serves, raises on, and answers with figures *)
(* that are zero or not numbers.                                           *)
C25_Served ==
    validated = Some(<<>>) /\ EngineServes(BodyAsInput(body))

C25_ValidatedButThrown ==
    validated = Some(<<>>) /\ ThrownError(Destructured(BodyAsInput(body))) # ""

C25_ValidatedButNoFigures ==
    /\ validated = Some(<<>>)
    /\ ThrownError(Destructured(BodyAsInput(body))) = ""
    /\ ~ PositiveFigures(Estimate(BodyAsInput(body)))

-----------------------------------------------------------------------------
(* C26  In every returned result the cement bags count is consistent with  *)
(*      the reported (2-decimal) cement mass: bags * 50 >= cement.mass and *)
(*      (bags - 1) * 50 < cement.mass.                                     *)

BagsMass(r) == Num(r.cement.bags * BAG_KG)

C26_BagsFromReportedMass ==
    pc = "returned" =>
        /\ RLe(result[1].cement.mass, BagsMass(result[1]))
        /\ RLt(RSub(BagsMass(result[1]), Num(BAG_KG)), result[1].cement.mass)

(* Half a unit of the second decimal: the most toFixed(2) moves a mass.    *)
HalfCent == Rat(5, 1000)

(* The bags count is that of the mass before rounding: it agrees with the  *)
(* reported mass to within the rounding of the report.                     *)
C26_BagsWithinRounding ==
    pc = "returned" =>
        /\ locals[1].cementBags = Ceil(FDiv(locals[1].cementMassWithWastage,
                                            FromInt(BAG_KG)))
        /\ result[1].cement.bags = locals[1].cementBags
        /\ RLe(RSub(result[1].cement.mass, HalfCent), BagsMass(result[1]))
        /\ RLt(RSub(BagsMass(result[1]), Num(BAG_KG)),
               RAdd(result[1].cement.mass, HalfCent))

(* A returned result whose reported mass is a whole number of bags while   *)
(* the count is one more.                                                  *)
C26_Witness ==
    /\ pc = "returned"
    /\ result[1].cement.bags > 0
    /\ result[1].cement.mass = RSub(BagsMass(result[1]), Num(BAG_KG))

-----------------------------------------------------------------------------
(* C27  In the estimation form the concrete class and the mix-ratio fields *)
(*      stay consistent: initially (demo mode included) and after every    *)
(*      class selection, loaded presets or not, the ratio fields hold the  *)
(*      preset ratio of the selected class until the user edits a ratio    *)
(*      field.                                                             *)

HoldsPreset(f) ==
    /\ f.cementRatio = getPresetMixRatios[f.concreteClass].cement
    /\ f.sandRatio = getPresetMixRatios[f.concreteClass].sand
    /\ f.aggRatio = getPresetMixRatios[f.concreteClass].agg

C27_ClassAndRatioConsistent == ~ edited => HoldsPreset(form)

(* The demo page as mounted: class C25/30 over the ratio 1:2:4.            *)
C27_DemoMismatch ==
    /\ props.demoMode /\ ~ edited
    /\ form.concreteClass = "C25/30"
    /\ ~ HoldsPreset(form)

(* A class picked before the presets query has loaded.                     *)
C27_SelectedBeforeLoad ==
    /\ ~ props.demoMode /\ ~ edited /\ presets = None
    /\ form.concreteClass # "C20/25"
    /\ ~ HoldsPreset(form)

(* A class picked after the presets have loaded.                           *)
C27_SelectedAfterLoad ==
    /\ ~ edited /\ presets # None
    /\ form.concreteClass = "C35/45"
    /\ HoldsPreset(form)

-----------------------------------------------------------------------------
(* C28  Route-level ownership: a GET, PUT or DELETE by one user on a       *)
(*      project owned by the other, or on an estimate whose project is     *)
(*      owned by the other, is answered 403 (404 when absent) and changes  *)
(*      nothing; POST /api/estimates cannot attach an estimate to another  *)
(*      user's project; and no PUT changes a project's userId or an        *)
(*      estimate's projectId.                                              *)

OnProject(rq) ==
    rq.path \in {"/api/projects/:id", "/api/projects/:projectId/estimates"}

OnEstimate(rq) == rq.path = "/api/estimates/:id"

(* The status the claim prescribes for a request on something absent or    *)
(* owned by another user, 0 for a request on the user's own.               *)
Prescribed(rq) ==
    IF OnProject(rq)
    THEN IF projects[rq.id] = None THEN 404
         ELSE IF projects[rq.id][1].userId # rq.user THEN 403 ELSE 0
    ELSE IF OnEstimate(rq)
    THEN IF estimates[rq.id] = None THEN 404
         ELSE IF \/ projects[estimates[rq.id][1].projectId] = None
                 \/ projects[estimates[rq.id][1].projectId][1].userId # rq.user
              THEN 403 ELSE 0
    ELSE 0

OwnersKept ==
    /\ \A p \in ProjectIds :
          (projects[p] # None /\ projects'[p] # None) =>
              projects'[p][1].userId = projects[p][1].userId
    /\ \A e \in EstimateIds :
          (estimates[e] # None /\ estimates'[e] # None) =>
              estimates'[e][1].projectId = estimates[e][1].projectId

AttachedToOwn(rq) ==
    \A e \in EstimateIds :
        (estimates[e] = None /\ estimates'[e] # None) =>
            /\ projects[estimates'[e][1].projectId] # None
            /\ projects[estimates'[e][1].projectId][1].userId = rq.user

C28_RouteOwnership ==
    [][apiRequest' # None =>
          /\ Prescribed(apiRequest'[1]) # 0 =>
                /\ apiResponse'[1].status = Prescribed(apiRequest'[1])
                /\ projects' = projects /\ estimates' = estimates
          /\ OwnersKept
          /\ AttachedToOwn(apiRequest'[1])]_vars

(* A's PUT on B's project was answered 403.                                *)
C28_Witness ==
    /\ apiRequest # None /\ apiRequest[1].user = "A"
    /\ apiRequest[1].method = "PUT" /\ OnProject(apiRequest[1])
    /\ projects[apiRequest[1].id] # None
    /\ projects[apiRequest[1].id][1].userId = "B"
    /\ apiResponse[1].status = 403

(* A's DELETE of B's estimate was answered 403 and the estimate is there.  *)
C28_WitnessEstimate ==
    /\ apiRequest # None /\ apiRequest[1].user = "A"
    /\ apiRequest[1].method = "DELETE" /\ OnEstimate(apiRequest[1])
    /\ estimates[apiRequest[1].id] # None
    /\ projects[estimates[apiRequest[1].id][1].projectId] # None
    /\ projects[estimates[apiRequest[1].id][1].projectId][1].userId = "B"
    /\ apiResponse[1].status = 403

(* An owner's PUT naming another owner was served and changed no owner.    *)
C28_WitnessWhitelist ==
    /\ apiRequest # None /\ apiRequest[1].method = "PUT"
    /\ OnProject(apiRequest[1])
    /\ apiRequest[1].body[1].userId = Some("B")
    /\ apiResponse[1].status = 200
    /\ projects[apiRequest[1].id][1].userId = "A"

(* A's POST /api/estimates naming B's project was refused.                 *)
C28_WitnessAttach ==
    /\ apiRequest # None /\ apiRequest[1].user = "A"
    /\ apiRequest[1].path = "/api/estimates"
    /\ projects[apiRequest[1].body[1].projectId[1]] # None
    /\ projects[apiRequest[1].body[1].projectId[1]][1].userId = "B"
    /\ apiResponse[1].status = 403

-----------------------------------------------------------------------------
(* C29  In the in-memory DatabaseStorage, after any sequence of calls by   *)
(*      users A and B, getProjectEstimates(B, p) and getEstimate(B, e)     *)
(*      return only estimates created by B in B's projects, B's projects   *)
(*      and estimates are never changed or removed by a call made with     *)
(*      userId A, and every stored estimate refers to an existing project. *)

(* What the two reads hand to user u.                                      *)
ReadsOwn(u) ==
    /\ \A p \in Clock : \A e \in memoryGetProjectEstimates(u, p) :
          createdBy[e] = Some(u)
    /\ \A e \in Clock : memoryGetEstimate(u, e) # None => createdBy[e] = Some(u)

NoDanglingEstimate ==
    \A e \in Clock :
        storedEstimates[e] # None =>
            storedProjects[storedEstimates[e][1].projectId] # None

(* The projects of the other users, and the estimates they created, are    *)
(* after the call what they were before it.                                *)
OthersUntouched(u) ==
    /\ \A p \in Clock :
          (storedProjects[p] # None /\ storedProjects[p][1].userId # u) =>
              storedProjects'[p] = storedProjects[p]
    /\ \A e \in Clock :
          (storedEstimates[e] # None /\ createdBy[e] # Some(u)) =>
              storedEstimates'[e] = storedEstimates[e]

C29_StorageIsolation ==
    [][caller' \in Users =>
          /\ \A u \in Users : ReadsOwn(u)'
          /\ NoDanglingEstimate'
          /\ OthersUntouched(caller')]_vars

(* The three parts of the claim, each on its own.                          *)
C29_ReadsOwn == \A u \in Users : ReadsOwn(u)

C29_NoDangling == NoDanglingEstimate

C29_OthersUntouched ==
    [][caller' \in Users => OthersUntouched(caller')]_vars

(* B's project holds an estimate that A created.                           *)
C29_ForeignEstimate ==
    \E p, e \in Clock :
        /\ storedProjects[p] = Some([userId |-> "B"])
        /\ e \in memoryGetProjectEstimates("B", p)
        /\ createdBy[e] = Some("A")

-----------------------------------------------------------------------------
(* C30  Magic-link login: GET /api/auth/verify-magic-link returns a user   *)
(*      only when the presented token was generated by an earlier POST     *)
(*      /api/auth/send-magic-link; for any other token value, the id of a  *)
(*      user created through login or signup included, it answers 400      *)
(*      'Invalid or expired magic link'.                                   *)

Verified == authRequest # None /\ authRequest[1].path = "/api/auth/verify-magic-link"

C30_OnlySentTokensVerify ==
    Verified =>
        IF authRequest[1].arg \in sentTokens
        THEN authResponse[1].status = 200
        ELSE authResponse[1] =
                 [status |-> 400,
                  body |-> [message |-> "Invalid or expired magic link"]]

(* A token that was sent is verified, and a made-up one is refused.        *)
C30_SentVerified ==
    /\ Verified /\ authRequest[1].arg \in sentTokens
    /\ authResponse[1].status = 200

C30_GuessRefused ==
    /\ Verified /\ authRequest[1].arg = <<"guess">>
    /\ authResponse[1].status = 400

(* The id 'demo-user' is accepted as a magic-link token after a login.     *)
C30_UserIdVerified ==
    /\ Verified /\ authRequest[1].arg = DemoUserId
    /\ sentTokens = {}
    /\ authResponse[1].status = 200
====
